---- MODULE Spec2Model ----
(***************************************************************************)
(* A model of the OSM MCP map bridge: the FlaskServer of                   *)
(* src/mcp_osm/flask_server.py (SSE registry, streaming endpoint, command  *)
(* dispatcher, inbound sink, poll-with-timeout bridge, view state) and the *)
(* map tools of src/mcp_osm/server.py that call it.                        *)
(*                                                                         *)
(* Threads.  The dispatcher methods run on caller threads (the MCP event   *)
(* loop runs the async tools one at a time), every HTTP request runs on    *)
(* its own Werkzeug worker thread.  Shared dict/attribute accesses are     *)
(* atomic (GIL); everything between two of them may interleave.            *)
(*                                                                         *)
(* Time.  now is time.time() in milliseconds.  time.sleep(0.1) lasts       *)
(* exactly PollMs, queue.get(timeout=30) gives up exactly GetTimeoutMs     *)
(* after it began, and a caller thread computes in zero time: the clock    *)
(* advances only while every caller thread is idle or asleep, either to    *)
(* the next pending deadline or by one millisecond (at most MaxQuanta      *)
(* times, which is what lets two events share a millisecond or not).       *)
(*                                                                         *)
(* Python values.  Optional[T] is a set with at most one element (None is  *)
(* {}), a list is a sequence, a dict with string keys is a function on a   *)
(* set of strings, a float in [0,1] is counted in tenths.                  *)
(***************************************************************************)
EXTENDS Integers, Sequences, FiniteSets, TLC

----------------------------------------------------------------------------
(* Bounds of the model *)

MaxConns == 2
MaxCalls == 2
MaxPosts == 2
MaxQuanta == 1
MaxTime == 30200
NumThreads == 2
MaxRoundTrips == 1
MaxToolCalls == 1
MaxPoints == 3

(* Program constants *)

IdModulus == 1000000
GetTimeoutMs == 30000
ScreenshotTimeoutMs == 5000
GeolocateTimeoutMs == 10000
PollMs == 100
MaxZoom == 19
MinPolygonPoints == 3
MinLinePoints == 2
OpacityOne == 10
DefaultPort == 5000
max_attempts == 10
MaxPort == 65535

Conns == 1..MaxConns
Threads == 1..NumThreads

----------------------------------------------------------------------------
(* Python values *)

None == {}
Some(v) == {v}
Get(o) == CHOOSE v \in o : TRUE

EmptyDict == <<>>
HasKey(d, k) == k \in DOMAIN d
DictSet(d, k, v) == [x \in (DOMAIN d) \cup {k} |-> IF x = k THEN v ELSE d[x]]
DictDel(d, k) == [x \in (DOMAIN d) \ {k} |-> d[x]]
IsEmptyDict(d) == DOMAIN d = {}

Min(S) == CHOOSE x \in S : \A y \in S : x <= y

RECURSIVE SeqsUpTo(_, _)
SeqsUpTo(S, n) ==
  IF n = 0 THEN {<<>>}
  ELSE LET shorter == SeqsUpTo(S, n - 1)
       IN shorter \cup {Append(s, x) : s \in {q \in shorter : Len(q) = n - 1}, x \in S}

Range(s) == {s[i] : i \in DOMAIN s}

----------------------------------------------------------------------------
VARIABLES
  now,                  \* time.time(), in ms
  quanta,               \* number of one-millisecond clock steps taken
  sse_clients,          \* FlaskServer.sse_clients: insertion-ordered dict,
                        \*   a sequence of <<client_id, queue owner>>
  conn,                 \* per connection: the event_stream generator, its
                        \*   queue.Queue and the frames written to the peer
  current_view,         \* FlaskServer.current_view
  latest_screenshot,    \* FlaskServer.latest_screenshot
  geolocate_responses,  \* FlaskServer.geolocate_responses
  flask_server,         \* app_ctx.flask_server is set
  server,               \* FlaskServer.port, server_thread and the frame of start()
  lifespan,             \* app_lifespan: its position, and app_ctx.db_conn is set
  thread,               \* per caller thread: position and locals
  sent,                 \* history: one record per send_map_command call
  posts,                \* history: the inbound reports handled, with replies
  ncalls                \* history: number of dispatcher/tool calls made

vars == <<now, quanta, sse_clients, conn, current_view, latest_screenshot,
          geolocate_responses, flask_server, server, lifespan, thread, sent,
          posts, ncalls>>

clock == <<now, quanta>>

shared == <<current_view, latest_screenshot, geolocate_responses, flask_server,
            server, lifespan>>

----------------------------------------------------------------------------
(* The registry: a Python dict, which keeps insertion order *)

Keys(d) == {d[i][1] : i \in DOMAIN d}
RegLen(d) == Len(d)
RegHas(d, k) == k \in Keys(d)
RegGet(d, k) == LET i == CHOOSE j \in DOMAIN d : d[j][1] = k IN d[i][2]
RegSet(d, k, v) ==
  IF RegHas(d, k)
  THEN [i \in DOMAIN d |-> IF d[i][1] = k THEN <<k, v>> ELSE d[i]]
  ELSE Append(d, <<k, v>>)
RegDel(d, k) == SelectSeq(d, LAMBDA e : e[1] # k)
RegItems(d) == d

(* Frames of the event stream *)

ConnectedFrame(id) == [frame |-> "connected", id |-> id]
PingFrame == [frame |-> "ping"]
DataFrame(entry) == [frame |-> "data", entry |-> entry]

(* json.dumps of a command: the serialized text is kept as the pair of the *)
(* format and the value it encodes.                                        *)
json_dumps(command) == [json |-> command]

----------------------------------------------------------------------------
(* Streaming transport endpoint: sse() and the event_stream generator *)

NewConn == [pc |-> "none", client_id |-> 0, client_queue |-> <<>>,
            stream |-> <<>>, wait_start |-> 0,
            joined |-> {}, begun |-> {}]

(* history: the broadcasts that had taken their snapshot (or had returned) *)
Snapped == {b \in DOMAIN sent : sent[b].state # "begun"}

(* sse(): client_id = int(time.time() * 1000) % 1000000; the generator is  *)
(* created, its body has not run yet.                                      *)
Sse(c) ==
  /\ conn[c].pc = "none"
  /\ \A d \in Conns : d < c => conn[d].pc # "none"
  /\ conn' = [conn EXCEPT ![c].pc = "created",
                          ![c].client_id = now % IdModulus]
  /\ UNCHANGED <<clock, sse_clients, shared, thread, sent, posts, ncalls>>

(* Faulty variant of Register: the new queue is preloaded with the         *)
(* messages already broadcast (a replay of the backlog).                   *)
Register_Replay(c) ==
  /\ conn[c].pc = "created"
  /\ sse_clients' = RegSet(sse_clients, conn[c].client_id, c)
  /\ LET past == SelectSeq([b \in DOMAIN sent |-> b],
                           LAMBDA b : sent[b].state # "begun")
     IN conn' = [conn EXCEPT ![c].pc = "registered",
                   ![c].client_queue =
                      [i \in DOMAIN past |->
                         [bc |-> past[i], message |-> sent[past[i]].message]],
                   ![c].joined = Snapped,
                   ![c].begun = DOMAIN sent]
  /\ UNCHANGED <<clock, shared, thread, sent, posts, ncalls>>

(* event_stream: client_queue = queue.Queue();                             *)
(*               self.sse_clients[client_id] = client_queue                *)
Register(c) ==
  /\ conn[c].pc = "created"
  /\ sse_clients' = RegSet(sse_clients, conn[c].client_id, c)
  /\ conn' = [conn EXCEPT ![c].pc = "registered",
                          ![c].client_queue = <<>>,
                          ![c].joined = Snapped,
                          ![c].begun = DOMAIN sent]
  /\ UNCHANGED <<clock, shared, thread, sent, posts, ncalls>>

(* yield 'data: {"type": "connected", "id": %d}\n\n' % client_id *)
YieldConnected(c) ==
  /\ conn[c].pc = "registered"
  /\ conn' = [conn EXCEPT ![c].pc = "yielded",
                          ![c].stream = Append(@, ConnectedFrame(conn[c].client_id))]
  /\ UNCHANGED <<clock, sse_clients, shared, thread, sent, posts, ncalls>>

(* The server wrote the frame and asks for the next one: the generator     *)
(* resumes and blocks in client_queue.get(timeout=30).                     *)
QueueGet(c) ==
  /\ conn[c].pc = "yielded"
  /\ conn' = [conn EXCEPT ![c].pc = "waiting", ![c].wait_start = now]
  /\ UNCHANGED <<clock, sse_clients, shared, thread, sent, posts, ncalls>>

(* Faulty variant of YieldMessage: the message is read and left in the     *)
(* queue.                                                                  *)
YieldMessage_Peek(c) ==
  /\ conn[c].pc = "waiting"
  /\ conn[c].client_queue # <<>>
  /\ conn' = [conn EXCEPT ![c].pc = "yielded",
                          ![c].wait_start = 0,
                          ![c].stream = Append(@, DataFrame(Head(conn[c].client_queue)))]
  /\ UNCHANGED <<clock, sse_clients, shared, thread, sent, posts, ncalls>>

(* message = client_queue.get(timeout=30); yield f"data: {message}\n\n" *)
YieldMessage(c) ==
  /\ conn[c].pc = "waiting"
  /\ conn[c].client_queue # <<>>
  /\ conn' = [conn EXCEPT ![c].pc = "yielded",
                          ![c].wait_start = 0,
                          ![c].client_queue = Tail(@),
                          ![c].stream = Append(@, DataFrame(Head(conn[c].client_queue)))]
  /\ UNCHANGED <<clock, sse_clients, shared, thread, sent, posts, ncalls>>

(* Faulty variant of YieldPing: a wait that times out ends the handler,    *)
(* which unregisters, instead of producing a keepalive.                    *)
YieldPing_Close(c) ==
  /\ conn[c].pc = "waiting"
  /\ conn[c].client_queue = <<>>
  /\ now >= conn[c].wait_start + GetTimeoutMs
  /\ sse_clients' = RegDel(sse_clients, conn[c].client_id)
  /\ conn' = [conn EXCEPT ![c].pc = "closed", ![c].wait_start = 0]
  /\ UNCHANGED <<clock, shared, thread, sent, posts, ncalls>>

(* except queue.Empty: yield 'data: {"type": "ping"}\n\n' *)
YieldPing(c) ==
  /\ conn[c].pc = "waiting"
  /\ conn[c].client_queue = <<>>
  /\ now >= conn[c].wait_start + GetTimeoutMs
  /\ conn' = [conn EXCEPT ![c].pc = "yielded",
                          ![c].wait_start = 0,
                          ![c].stream = Append(@, PingFrame)]
  /\ UNCHANGED <<clock, sse_clients, shared, thread, sent, posts, ncalls>>

(* Faulty variant of Disconnect: the handler ends, the entry stays *)
Disconnect_KeepEntry(c) ==
  /\ conn[c].pc = "yielded"
  /\ conn' = [conn EXCEPT ![c].pc = "closed"]
  /\ UNCHANGED <<clock, sse_clients, shared, thread, sent, posts, ncalls>>

(* except GeneratorExit: thrown into the generator at the yield where it   *)
(* is suspended when the server finds the peer gone.                       *)
(*   if client_id in self.sse_clients: del self.sse_clients[client_id]     *)
Disconnect(c) ==
  /\ conn[c].pc = "yielded"
  /\ sse_clients' = IF RegHas(sse_clients, conn[c].client_id)
                    THEN RegDel(sse_clients, conn[c].client_id)
                    ELSE sse_clients
  /\ conn' = [conn EXCEPT ![c].pc = "closed"]
  /\ UNCHANGED <<clock, shared, thread, sent, posts, ncalls>>

----------------------------------------------------------------------------
(* Caller threads and FlaskServer.send_map_command *)

NoCall == [name |-> "none"]
NoRet == [kind |-> "none"]
RetNone == [kind |-> "None"]
RetValue(v) == [kind |-> "value", value |-> v]
RetStr(text, parts) == [kind |-> "str", text |-> text, parts |-> parts]
RetRaise(exc) == [kind |-> "raise", exc |-> exc]

(* A returned reference to an object of the server: what the holder reads  *)
(* through it is the object's content at the time of reading; seen keeps   *)
(* the content at the time of the return.                                  *)
RetRef(object, content) == [kind |-> "ref", object |-> object, seen |-> content]

NewThread == [pc |-> "idle", call |-> NoCall, ret |-> NoRet, pending |-> NoRet,
              message |-> <<>>, bc |-> 0, snapshot |-> <<>>,
              start_time |-> 0, wake |-> 0, request_id |-> "", screenshot |-> None,
              answered |-> FALSE, polled |-> FALSE]

(* The locals of a finished call are dropped; the call, what it returned,  *)
(* the request id it used and the broadcast it made stay for inspection.   *)
Returned(th, value) ==
  [th EXCEPT !.pc = "idle", !.ret = value, !.pending = NoRet, !.message = <<>>,
             !.snapshot = <<>>, !.start_time = 0, !.wake = 0, !.screenshot = None]

ToolNames == {"set_map_view", "set_map_title", "add_map_marker",
              "add_map_polygon", "add_map_line"}

(* send_map_command, lines 198-199:                                        *)
(*   command = {"type": command_type, "data": data}                        *)
(*   message = json.dumps(command)                                         *)
SendBegin(th, command_type, data) ==
  [th EXCEPT !.pc = "send_len",
             !.message = json_dumps([type |-> command_type, data |-> data]),
             !.bc = Len(sent) + 1]

SentBegin(command_type, data) ==
  Append(sent, [message |-> json_dumps([type |-> command_type, data |-> data]),
                state |-> "begun", targets |-> {}, failed |-> {}])

(* What the caller of send_map_command does once it has returned *)
AfterSend(th) ==
  CASE th.call.name \in ToolNames -> Returned(th, th.pending)
    [] th.call.name = "capture_screenshot" ->
         [th EXCEPT !.pc = "cap_loop", !.start_time = now, !.wake = now,
                    !.message = <<>>, !.snapshot = <<>>]
    [] th.call.name = "geolocate" ->
         [th EXCEPT !.pc = "geo_loop", !.start_time = now, !.wake = now,
                    !.message = <<>>, !.snapshot = <<>>]

(* Faulty variant of SendLen: no early return on an empty registry *)
SendLen_NoShortCircuit(t) ==
  /\ thread[t].pc = "send_len"
  /\ thread' = [thread EXCEPT ![t].pc = "send_snap"]
  /\ UNCHANGED <<clock, sse_clients, conn, shared, sent, posts, ncalls>>

(* lines 202-205: clients_count = len(self.sse_clients);                   *)
(*                if clients_count == 0: return                            *)
SendLen(t) ==
  /\ thread[t].pc = "send_len"
  /\ IF RegLen(sse_clients) = 0
     THEN /\ thread' = [thread EXCEPT ![t] = AfterSend(thread[t])]
          /\ sent' = [sent EXCEPT ![thread[t].bc].state = "noclients"]
     ELSE /\ thread' = [thread EXCEPT ![t].pc = "send_snap"]
          /\ UNCHANGED sent
  /\ UNCHANGED <<clock, sse_clients, conn, shared, posts, ncalls>>

(* Faulty variant of SendSnapshot: the loop is given the first item only *)
SendSnapshot_FirstOnly(t) ==
  /\ thread[t].pc = "send_snap"
  /\ thread' = [thread EXCEPT ![t].pc = "send_put",
                              ![t].snapshot =
                                 IF RegItems(sse_clients) = <<>> THEN <<>>
                                 ELSE <<Head(RegItems(sse_clients))>>]
  /\ sent' = [sent EXCEPT ![thread[t].bc].state = "snapped",
                          ![thread[t].bc].targets =
                             {sse_clients[i][2] : i \in DOMAIN sse_clients}]
  /\ UNCHANGED <<clock, sse_clients, conn, shared, posts, ncalls>>

(* line 208: list(self.sse_clients.items()) *)
SendSnapshot(t) ==
  /\ thread[t].pc = "send_snap"
  /\ thread' = [thread EXCEPT ![t].pc = "send_put",
                              ![t].snapshot = RegItems(sse_clients)]
  /\ sent' = [sent EXCEPT ![thread[t].bc].state = "snapped",
                          ![thread[t].bc].targets =
                             {sse_clients[i][2] : i \in DOMAIN sse_clients}]
  /\ UNCHANGED <<clock, sse_clients, conn, shared, posts, ncalls>>

(* Faulty variant of SendPut: the message is put at the head of the queue *)
SendPut_Lifo(t) ==
  /\ thread[t].pc = "send_put"
  /\ thread[t].snapshot # <<>>
  /\ LET q == Head(thread[t].snapshot)[2]
     IN conn' = [conn EXCEPT ![q].client_queue =
                   <<[bc |-> thread[t].bc, message |-> thread[t].message]>> \o @]
  /\ thread' = [thread EXCEPT ![t].snapshot = Tail(@)]
  /\ UNCHANGED <<clock, sse_clients, shared, sent, posts, ncalls>>

(* Faulty variant of SendPut: the iteration also consumes the item that    *)
(* follows (what iterating a list that shrinks underneath does).           *)
SendPut_SkipNext(t) ==
  /\ thread[t].pc = "send_put"
  /\ thread[t].snapshot # <<>>
  /\ LET q == Head(thread[t].snapshot)[2]
     IN conn' = [conn EXCEPT ![q].client_queue =
                   Append(@, [bc |-> thread[t].bc, message |-> thread[t].message])]
  /\ thread' = [thread EXCEPT ![t].snapshot =
                  IF Len(@) >= 2 THEN Tail(Tail(@)) ELSE Tail(@)]
  /\ UNCHANGED <<clock, sse_clients, shared, sent, posts, ncalls>>

(* Faulty variant of SendPut: the queue holds one item at most, and put   *)
(* waits for room (what queue.Queue(maxsize=1) does).                      *)
SendPut_Bounded(t) ==
  /\ thread[t].pc = "send_put"
  /\ thread[t].snapshot # <<>>
  /\ LET q == Head(thread[t].snapshot)[2]
     IN /\ conn[q].client_queue = <<>>
        /\ conn' = [conn EXCEPT ![q].client_queue =
                      Append(@, [bc |-> thread[t].bc, message |-> thread[t].message])]
  /\ thread' = [thread EXCEPT ![t].snapshot = Tail(@)]
  /\ UNCHANGED <<clock, sse_clients, shared, sent, posts, ncalls>>

(* lines 208-210, one iteration: client_queue.put(message).  The queue is  *)
(* unbounded, put neither blocks nor raises.                               *)
SendPut(t) ==
  /\ thread[t].pc = "send_put"
  /\ thread[t].snapshot # <<>>
  /\ LET q == Head(thread[t].snapshot)[2]
     IN conn' = [conn EXCEPT ![q].client_queue =
                   Append(@, [bc |-> thread[t].bc, message |-> thread[t].message])]
  /\ thread' = [thread EXCEPT ![t].snapshot = Tail(@)]
  /\ UNCHANGED <<clock, sse_clients, shared, sent, posts, ncalls>>

(* Faulty variant of SendPutRaises: the exception is not caught, it ends    *)
(* the loop and leaves send_map_command and the tool that called it.       *)
SendPutRaises_Abort(t) ==
  /\ thread[t].pc = "send_put"
  /\ thread[t].snapshot # <<>>
  /\ thread' = [thread EXCEPT ![t] = Returned(thread[t], RetRaise("Exception"))]
  /\ sent' = [sent EXCEPT ![thread[t].bc].failed =
                 @ \cup {Head(thread[t].snapshot)[2]},
                          ![thread[t].bc].state = "done"]
  /\ UNCHANGED <<clock, sse_clients, conn, shared, posts, ncalls>>

(* lines 209-212, one iteration in which client_queue.put(message) raises   *)
(* (an unbounded queue.Queue raises only when memory is exhausted): the    *)
(* except clause logs the error, nothing is enqueued for this client, and  *)
(* the loop goes on with the next item.                                    *)
SendPutRaises(t) ==
  /\ thread[t].pc = "send_put"
  /\ thread[t].snapshot # <<>>
  /\ thread' = [thread EXCEPT ![t].snapshot = Tail(@)]
  /\ sent' = [sent EXCEPT ![thread[t].bc].failed =
                 @ \cup {Head(thread[t].snapshot)[2]}]
  /\ UNCHANGED <<clock, sse_clients, conn, shared, posts, ncalls>>

(* the for loop is exhausted: send_map_command returns *)
SendReturn(t) ==
  /\ thread[t].pc = "send_put"
  /\ thread[t].snapshot = <<>>
  /\ thread' = [thread EXCEPT ![t] = AfterSend(thread[t])]
  /\ sent' = [sent EXCEPT ![thread[t].bc].state = "done"]
  /\ UNCHANGED <<clock, sse_clients, conn, shared, posts, ncalls>>

----------------------------------------------------------------------------
(* Python truthiness and type tests on the tool arguments *)

TruthyList(o) == o # None /\ Get(o) # <<>>
TruthyInt(o) == o # None /\ Get(o) # 0
TruthyStr(o) == o # None /\ Get(o) # ""
IsNumber(x) == x \in Int
IsInt(x) == x \in Int
AllNumbers(p) == \A i \in DOMAIN p : IsNumber(p[i])

(* all(len(point) == 2 and all(isinstance(c, (int, float)) ...) ...) *)
AllPoints(coordinates) ==
  \A i \in DOMAIN coordinates :
     Len(coordinates[i]) = 2 /\ AllNumbers(coordinates[i])

NotAvailable == RetStr("Map server is not available.", <<>>)

----------------------------------------------------------------------------
(* Command dispatcher: FlaskServer.set_view / show_polygon / show_line *)

(* flask_server.py 257-263: data holds the arguments that are truthy *)
set_view_data(bounds, center, zoom) ==
  LET d1 == IF TruthyList(bounds) THEN DictSet(EmptyDict, "bounds", Get(bounds))
            ELSE EmptyDict
      d2 == IF TruthyList(center) THEN DictSet(d1, "center", Get(center)) ELSE d1
  IN IF TruthyInt(zoom) THEN DictSet(d2, "zoom", Get(zoom)) ELSE d2

(* flask_server.py 222, 245: {"coordinates": ..., "options": options or {}} *)
show_shape_data(coordinates, options) ==
  [coordinates |-> coordinates, options |-> options]

----------------------------------------------------------------------------
(* Map tools of server.py: validation, then the dispatcher call *)

(* server.py 645-658: the error string, or None when the arguments pass *)
set_map_view_error(center, zoom, bounds) ==
  IF TruthyList(center) /\ (Len(Get(center)) # 2 \/ ~AllNumbers(Get(center)))
  THEN Some("Error: center must be a [latitude, longitude] pair of numbers.")
  ELSE IF TruthyInt(zoom) /\ (~IsInt(Get(zoom)) \/ Get(zoom) < 0 \/ Get(zoom) > MaxZoom)
  THEN Some("Error: zoom must be an integer between 0 and 19.")
  ELSE IF TruthyList(bounds) /\
          (\/ Len(Get(bounds)) # 2
           \/ Len(Get(bounds)[1]) # 2
           \/ Len(Get(bounds)[2]) # 2
           \/ ~(\A i \in DOMAIN Get(bounds) : AllNumbers(Get(bounds)[i])))
  THEN Some("Error: bounds must be [[south, west], [north, east]] coordinates.")
  ELSE IF ~TruthyList(center) /\ zoom = None /\ ~TruthyList(bounds)
  THEN Some("Error: at least one of center, zoom, or bounds must be provided.")
  ELSE None

(* server.py 665-673: the parts named by the success message *)
set_map_view_parts(center, zoom, bounds) ==
  (IF TruthyList(bounds) THEN << <<"bounds", Get(bounds)>> >> ELSE <<>>)
  \o (IF TruthyList(center) THEN << <<"center", Get(center)>> >> ELSE <<>>)
  \o (IF zoom # None THEN << <<"zoom", Get(zoom)>> >> ELSE <<>>)

(* Faulty variant of SetMapView: the requested view is also written to    *)
(* current_view, ahead of the browser's report.                            *)
SetMapView_Optimistic(t, center, zoom, bounds) ==
  /\ thread[t].pc = "idle"
  /\ ncalls < MaxCalls
  /\ ncalls' = ncalls + 1
  /\ LET th == [thread[t] EXCEPT
                  !.call = [name |-> "set_map_view", center |-> center,
                            zoom |-> zoom, bounds |-> bounds],
                  !.bc = 0, !.request_id = "", !.answered = FALSE, !.polled = FALSE]
         err == set_map_view_error(center, zoom, bounds)
     IN IF ~flask_server \/ err # None
        THEN /\ thread' = [thread EXCEPT ![t] =
                  Returned(th, IF ~flask_server THEN NotAvailable
                               ELSE RetStr(Get(err), <<>>))]
             /\ UNCHANGED <<sent, current_view>>
        ELSE LET data == set_view_data(bounds, center, zoom)
                 ok == RetStr("Map view updated successfully",
                              set_map_view_parts(center, zoom, bounds))
             IN /\ thread' = [thread EXCEPT ![t] =
                     SendBegin([th EXCEPT !.pending = ok], "SET_VIEW", data)]
                /\ sent' = SentBegin("SET_VIEW", data)
                /\ current_view' =
                     [f \in DOMAIN current_view |->
                        IF HasKey(data, f) THEN data[f] ELSE current_view[f]]
  /\ UNCHANGED <<clock, sse_clients, conn, latest_screenshot, geolocate_responses,
                 flask_server, server, lifespan, posts>>

SetMapView(t, center, zoom, bounds) ==
  /\ thread[t].pc = "idle"
  /\ ncalls < MaxCalls
  /\ ncalls' = ncalls + 1
  /\ LET th == [thread[t] EXCEPT
                  !.call = [name |-> "set_map_view", center |-> center,
                            zoom |-> zoom, bounds |-> bounds],
                  !.bc = 0, !.request_id = "", !.answered = FALSE, !.polled = FALSE]
         err == set_map_view_error(center, zoom, bounds)
     IN IF ~flask_server
        THEN /\ thread' = [thread EXCEPT ![t] = Returned(th, NotAvailable)]
             /\ UNCHANGED sent
        ELSE IF err # None
        THEN /\ thread' = [thread EXCEPT ![t] = Returned(th, RetStr(Get(err), <<>>))]
             /\ UNCHANGED sent
        ELSE LET data == set_view_data(bounds, center, zoom)
                 ok == RetStr("Map view updated successfully",
                              set_map_view_parts(center, zoom, bounds))
             IN /\ thread' = [thread EXCEPT ![t] =
                     SendBegin([th EXCEPT !.pending = ok], "SET_VIEW", data)]
                /\ sent' = SentBegin("SET_VIEW", data)
  /\ UNCHANGED <<clock, sse_clients, conn, shared, posts>>

(* Faulty variant of add_map_polygon_error: two points are enough, and    *)
(* the opacity is not checked.                                             *)
add_map_polygon_error_Lax(coordinates, fill_opacity, weight) ==
  IF coordinates = <<>> \/ ~AllPoints(coordinates)
  THEN Some("Error: coordinates must be a list of [latitude, longitude] points.")
  ELSE IF Len(coordinates) < MinPolygonPoints - 1
  THEN Some("Error: a polygon requires at least 3 points.")
  ELSE IF weight # None /\ (~IsInt(Get(weight)) \/ Get(weight) < 0)
  THEN Some("Error: weight must be a positive integer.")
  ELSE None

(* server.py 806-826 (polygon) : the error string, or None *)
add_map_polygon_error(coordinates, fill_opacity, weight) ==
  IF coordinates = <<>> \/ ~AllPoints(coordinates)
  THEN Some("Error: coordinates must be a list of [latitude, longitude] points.")
  ELSE IF Len(coordinates) < MinPolygonPoints
  THEN Some("Error: a polygon requires at least 3 points.")
  ELSE IF fill_opacity # None /\ ~(0 <= Get(fill_opacity) /\ Get(fill_opacity) <= OpacityOne)
  THEN Some("Error: fill_opacity must be between 0.0 and 1.0.")
  ELSE IF weight # None /\ (~IsInt(Get(weight)) \/ Get(weight) < 0)
  THEN Some("Error: weight must be a positive integer.")
  ELSE None

(* server.py 813-826 *)
add_map_polygon_options(color, fill_color, fill_opacity, weight, fit_bounds) ==
  LET o1 == IF TruthyStr(color) THEN DictSet(EmptyDict, "color", Get(color))
            ELSE EmptyDict
      o2 == IF TruthyStr(fill_color) THEN DictSet(o1, "fillColor", Get(fill_color)) ELSE o1
      o3 == IF fill_opacity # None THEN DictSet(o2, "fillOpacity", Get(fill_opacity)) ELSE o2
      o4 == IF weight # None THEN DictSet(o3, "weight", Get(weight)) ELSE o3
  IN DictSet(o4, "fitBounds", fit_bounds)

(* server.py 833-848: what the success message names *)
add_map_polygon_parts(n, color, fill_color, fill_opacity, weight, fit_bounds) ==
  << <<"points", n>> >>
  \o (IF TruthyStr(color) THEN << <<"color", Get(color)>> >> ELSE <<>>)
  \o (IF TruthyStr(fill_color) THEN << <<"fill", Get(fill_color)>> >> ELSE <<>>)
  \o (IF fill_opacity # None THEN << <<"opacity", Get(fill_opacity)>> >> ELSE <<>>)
  \o (IF weight # None THEN << <<"weight", Get(weight)>> >> ELSE <<>>)
  \o (IF fit_bounds THEN << <<"fit", TRUE>> >> ELSE <<>>)

AddMapPolygon(t, coordinates, color, fill_color, fill_opacity, weight, fit_bounds) ==
  /\ thread[t].pc = "idle"
  /\ ncalls < MaxCalls
  /\ ncalls' = ncalls + 1
  /\ LET th == [thread[t] EXCEPT
                  !.call = [name |-> "add_map_polygon", coordinates |-> coordinates,
                            color |-> color, fill_color |-> fill_color,
                            fill_opacity |-> fill_opacity, weight |-> weight,
                            fit_bounds |-> fit_bounds],
                  !.bc = 0, !.request_id = "", !.answered = FALSE, !.polled = FALSE]
         err == add_map_polygon_error(coordinates, fill_opacity, weight)
     IN IF ~flask_server
        THEN /\ thread' = [thread EXCEPT ![t] = Returned(th, NotAvailable)]
             /\ UNCHANGED sent
        ELSE IF err # None
        THEN /\ thread' = [thread EXCEPT ![t] = Returned(th, RetStr(Get(err), <<>>))]
             /\ UNCHANGED sent
        ELSE LET options == add_map_polygon_options(color, fill_color, fill_opacity,
                                                    weight, fit_bounds)
                 data == show_shape_data(coordinates, options)
                 ok == RetStr("Polygon added",
                              add_map_polygon_parts(Len(coordinates), color, fill_color,
                                                    fill_opacity, weight, fit_bounds))
             IN /\ thread' = [thread EXCEPT ![t] =
                     SendBegin([th EXCEPT !.pending = ok], "SHOW_POLYGON", data)]
                /\ sent' = SentBegin("SHOW_POLYGON", data)
  /\ UNCHANGED <<clock, sse_clients, conn, shared, posts>>

(* server.py 882-899 (line): the error string, or None *)
add_map_line_error(coordinates, weight, opacity) ==
  IF coordinates = <<>> \/ ~AllPoints(coordinates)
  THEN Some("Error: coordinates must be a list of [latitude, longitude] points.")
  ELSE IF Len(coordinates) < MinLinePoints
  THEN Some("Error: a line requires at least 2 points.")
  ELSE IF weight # None /\ (~IsInt(Get(weight)) \/ Get(weight) < 0)
  THEN Some("Error: weight must be a positive integer.")
  ELSE IF opacity # None /\ ~(0 <= Get(opacity) /\ Get(opacity) <= OpacityOne)
  THEN Some("Error: opacity must be between 0.0 and 1.0.")
  ELSE None

(* server.py 889-902 *)
add_map_line_options(color, weight, opacity, dash_array, fit_bounds) ==
  LET o1 == IF TruthyStr(color) THEN DictSet(EmptyDict, "color", Get(color))
            ELSE EmptyDict
      o2 == IF weight # None THEN DictSet(o1, "weight", Get(weight)) ELSE o1
      o3 == IF opacity # None THEN DictSet(o2, "opacity", Get(opacity)) ELSE o2
      o4 == IF TruthyStr(dash_array) THEN DictSet(o3, "dashArray", Get(dash_array)) ELSE o3
  IN DictSet(o4, "fitBounds", fit_bounds)

(* server.py 909-924 *)
add_map_line_parts(n, color, weight, opacity, dash_array, fit_bounds) ==
  << <<"points", n>> >>
  \o (IF TruthyStr(color) THEN << <<"color", Get(color)>> >> ELSE <<>>)
  \o (IF weight # None THEN << <<"weight", Get(weight)>> >> ELSE <<>>)
  \o (IF opacity # None THEN << <<"opacity", Get(opacity)>> >> ELSE <<>>)
  \o (IF TruthyStr(dash_array) THEN << <<"dash pattern", Get(dash_array)>> >> ELSE <<>>)
  \o (IF fit_bounds THEN << <<"fit", TRUE>> >> ELSE <<>>)

AddMapLine(t, coordinates, color, weight, opacity, dash_array, fit_bounds) ==
  /\ thread[t].pc = "idle"
  /\ ncalls < MaxCalls
  /\ ncalls' = ncalls + 1
  /\ LET th == [thread[t] EXCEPT
                  !.call = [name |-> "add_map_line", coordinates |-> coordinates,
                            color |-> color, weight |-> weight, opacity |-> opacity,
                            dash_array |-> dash_array, fit_bounds |-> fit_bounds],
                  !.bc = 0, !.request_id = "", !.answered = FALSE, !.polled = FALSE]
         err == add_map_line_error(coordinates, weight, opacity)
     IN IF ~flask_server
        THEN /\ thread' = [thread EXCEPT ![t] = Returned(th, NotAvailable)]
             /\ UNCHANGED sent
        ELSE IF err # None
        THEN /\ thread' = [thread EXCEPT ![t] = Returned(th, RetStr(Get(err), <<>>))]
             /\ UNCHANGED sent
        ELSE LET options == add_map_line_options(color, weight, opacity, dash_array,
                                                 fit_bounds)
                 data == show_shape_data(coordinates, options)
                 ok == RetStr("Line added",
                              add_map_line_parts(Len(coordinates), color, weight,
                                                 opacity, dash_array, fit_bounds))
             IN /\ thread' = [thread EXCEPT ![t] =
                     SendBegin([th EXCEPT !.pending = ok], "SHOW_LINE", data)]
                /\ sent' = SentBegin("SHOW_LINE", data)
  /\ UNCHANGED <<clock, sse_clients, conn, shared, posts>>

(* server.py 699-706 *)
set_map_title_options(color, font_size, background_color) ==
  LET o1 == IF TruthyStr(color) THEN DictSet(EmptyDict, "color", Get(color))
            ELSE EmptyDict
      o2 == IF TruthyStr(font_size) THEN DictSet(o1, "fontSize", Get(font_size)) ELSE o1
  IN IF TruthyStr(background_color)
     THEN DictSet(o2, "backgroundColor", Get(background_color)) ELSE o2

(* server.py 712-724: what the success message names *)
set_map_title_parts(title, color, font_size, background_color) ==
  << <<"title", title>> >>
  \o (IF TruthyStr(color) THEN << <<"color", Get(color)>> >> ELSE <<>>)
  \o (IF TruthyStr(font_size) THEN << <<"size", Get(font_size)>> >> ELSE <<>>)
  \o (IF TruthyStr(background_color)
      THEN << <<"background", Get(background_color)>> >> ELSE <<>>)

(* server.py 675-724: no validation *)
SetMapTitle(t, title, color, font_size, background_color) ==
  /\ thread[t].pc = "idle"
  /\ ncalls < MaxCalls
  /\ ncalls' = ncalls + 1
  /\ LET th == [thread[t] EXCEPT
                  !.call = [name |-> "set_map_title", title |-> title, color |-> color,
                            font_size |-> font_size,
                            background_color |-> background_color],
                  !.bc = 0, !.request_id = "", !.answered = FALSE, !.polled = FALSE]
     IN IF ~flask_server
        THEN /\ thread' = [thread EXCEPT ![t] = Returned(th, NotAvailable)]
             /\ UNCHANGED sent
        ELSE LET options == set_map_title_options(color, font_size, background_color)
                 data == [title |-> title, options |-> options]
                 ok == RetStr("Map title set",
                              set_map_title_parts(title, color, font_size,
                                                  background_color))
             IN /\ thread' = [thread EXCEPT ![t] =
                     SendBegin([th EXCEPT !.pending = ok], "SET_TITLE", data)]
                /\ sent' = SentBegin("SET_TITLE", data)
  /\ UNCHANGED <<clock, sse_clients, conn, shared, posts>>

(* server.py 751-752: the error string, or None *)
add_map_marker_error(coordinates) ==
  IF Len(coordinates) # 2 \/ ~AllNumbers(coordinates)
  THEN Some("Error: coordinates must be a [latitude, longitude] pair of numbers.")
  ELSE None

(* server.py 755-758 *)
add_map_marker_options(title, open_popup) ==
  DictSet(IF TruthyStr(title) THEN DictSet(EmptyDict, "title", Get(title))
          ELSE EmptyDict,
          "openPopup", open_popup)

(* server.py 765-772: what the success message names *)
add_map_marker_parts(coordinates, text, title) ==
  << <<"coordinates", coordinates>> >>
  \o (IF TruthyStr(text) THEN << <<"text", Get(text)>> >> ELSE <<>>)
  \o (IF TruthyStr(title) THEN << <<"title", Get(title)>> >> ELSE <<>>)

(* server.py 726-772 *)
AddMapMarker(t, coordinates, text, title, open_popup) ==
  /\ thread[t].pc = "idle"
  /\ ncalls < MaxCalls
  /\ ncalls' = ncalls + 1
  /\ LET th == [thread[t] EXCEPT
                  !.call = [name |-> "add_map_marker", coordinates |-> coordinates,
                            text |-> text, title |-> title, open_popup |-> open_popup],
                  !.bc = 0, !.request_id = "", !.answered = FALSE, !.polled = FALSE]
         err == add_map_marker_error(coordinates)
     IN IF ~flask_server
        THEN /\ thread' = [thread EXCEPT ![t] = Returned(th, NotAvailable)]
             /\ UNCHANGED sent
        ELSE IF err # None
        THEN /\ thread' = [thread EXCEPT ![t] = Returned(th, RetStr(Get(err), <<>>))]
             /\ UNCHANGED sent
        ELSE LET options == add_map_marker_options(title, open_popup)
                 data == [coordinates |-> coordinates, text |-> text,
                          options |-> options]
                 ok == RetStr("Marker added",
                              add_map_marker_parts(coordinates, text, title))
             IN /\ thread' = [thread EXCEPT ![t] =
                     SendBegin([th EXCEPT !.pending = ok], "SHOW_MARKER", data)]
                /\ sent' = SentBegin("SHOW_MARKER", data)
  /\ UNCHANGED <<clock, sse_clients, conn, shared, posts>>

----------------------------------------------------------------------------
(* Synchronous request/response bridge: capture_screenshot and geolocate *)

(* if self.latest_screenshot: None and "" are falsy *)
TruthyScreenshot == TruthyStr(latest_screenshot)

(* flask_server.py 295: self.send_map_command("CAPTURE_SCREENSHOT", {}) *)
CaptureScreenshot(t) ==
  /\ thread[t].pc = "idle"
  /\ ncalls < MaxCalls
  /\ ncalls' = ncalls + 1
  /\ thread' = [thread EXCEPT ![t] =
       SendBegin([thread[t] EXCEPT !.call = [name |-> "capture_screenshot"],
                                   !.ret = NoRet, !.request_id = "",
                                   !.answered = FALSE, !.polled = FALSE],
                 "CAPTURE_SCREENSHOT", EmptyDict)]
  /\ sent' = SentBegin("CAPTURE_SCREENSHOT", EmptyDict)
  /\ UNCHANGED <<clock, sse_clients, conn, shared, posts>>

(* 301-302, 306-309: one evaluation of the while condition, made when the  *)
(* preceding time.sleep(0.1) is over, and of the test of the slot          *)
CapturePoll(t) ==
  /\ thread[t].pc = "cap_loop"
  /\ now >= thread[t].wake
  /\ thread' = [thread EXCEPT ![t] =
       IF now - thread[t].start_time < ScreenshotTimeoutMs
       THEN IF TruthyScreenshot
            THEN [thread[t] EXCEPT !.pc = "cap_read"]
            ELSE [thread[t] EXCEPT !.wake = now + PollMs]
       ELSE Returned(thread[t], RetNone)]
  /\ UNCHANGED <<clock, sse_clients, conn, shared, sent, posts, ncalls>>

(* 303: screenshot = self.latest_screenshot *)
CaptureRead(t) ==
  /\ thread[t].pc = "cap_read"
  /\ thread' = [thread EXCEPT ![t].pc = "cap_clear",
                              ![t].screenshot = latest_screenshot]
  /\ UNCHANGED <<clock, sse_clients, conn, shared, sent, posts, ncalls>>

(* 304-305: self.latest_screenshot = None; return screenshot *)
CaptureClear(t) ==
  /\ thread[t].pc = "cap_clear"
  /\ latest_screenshot' = None
  /\ thread' = [thread EXCEPT ![t] =
       Returned(thread[t], IF thread[t].screenshot = None THEN RetNone
                           ELSE RetValue(Get(thread[t].screenshot)))]
  /\ UNCHANGED <<clock, sse_clients, conn, current_view, geolocate_responses,
                 flask_server, server, lifespan, sent, posts, ncalls>>

(* 322: request_id = str(int(time.time() * 1000)) *)
NewRequestId == ToString(now)

(* 322-326 *)
Geolocate(t, query) ==
  /\ thread[t].pc = "idle"
  /\ ncalls < MaxCalls
  /\ ncalls' = ncalls + 1
  /\ LET data == [requestId |-> NewRequestId, query |-> query]
     IN /\ thread' = [thread EXCEPT ![t] =
             SendBegin([thread[t] EXCEPT
                          !.call = [name |-> "geolocate", query |-> query],
                          !.ret = NoRet, !.request_id = NewRequestId,
                          !.answered = FALSE, !.polled = FALSE],
                       "GEOLOCATE", data)]
        /\ sent' = SentBegin("GEOLOCATE", data)
  /\ UNCHANGED <<clock, sse_clients, conn, shared, posts>>

(* Faulty variant of GeolocatePoll: a call that times out removes whatever *)
(* is stored under its request id before it returns.                       *)
GeolocatePoll_CleanUp(t) ==
  /\ thread[t].pc = "geo_loop"
  /\ now >= thread[t].wake
  /\ IF now - thread[t].start_time < GeolocateTimeoutMs
     THEN /\ thread' = [thread EXCEPT ![t] =
                IF HasKey(geolocate_responses, thread[t].request_id)
                THEN [thread[t] EXCEPT !.pc = "geo_pop"]
                ELSE [thread[t] EXCEPT !.wake = now + PollMs]]
          /\ UNCHANGED geolocate_responses
     ELSE /\ thread' = [thread EXCEPT ![t] = Returned(thread[t], RetNone)]
          /\ geolocate_responses' = DictDel(geolocate_responses, thread[t].request_id)
  /\ UNCHANGED <<clock, sse_clients, conn, current_view, latest_screenshot,
                 flask_server, server, lifespan, sent, posts, ncalls>>

(* 332-333, 336-339 *)
GeolocatePoll(t) ==
  /\ thread[t].pc = "geo_loop"
  /\ now >= thread[t].wake
  /\ thread' = [thread EXCEPT ![t] =
       IF now - thread[t].start_time < GeolocateTimeoutMs
       THEN IF HasKey(geolocate_responses, thread[t].request_id)
            THEN [thread[t] EXCEPT !.pc = "geo_pop"]
            ELSE [thread[t] EXCEPT !.wake = now + PollMs]
       ELSE Returned(thread[t], RetNone)]
  /\ UNCHANGED <<clock, sse_clients, conn, shared, sent, posts, ncalls>>

(* 334-335: results = self.geolocate_responses.pop(request_id); return     *)
(* dict.pop without a default raises KeyError when the key is gone         *)
GeolocatePop(t) ==
  /\ thread[t].pc = "geo_pop"
  /\ IF HasKey(geolocate_responses, thread[t].request_id)
     THEN /\ thread' = [thread EXCEPT ![t] =
                Returned(thread[t],
                         RetValue(geolocate_responses[thread[t].request_id]))]
          /\ geolocate_responses' = DictDel(geolocate_responses, thread[t].request_id)
     ELSE /\ thread' = [thread EXCEPT ![t] = Returned(thread[t], RetRaise("KeyError"))]
          /\ UNCHANGED geolocate_responses
  /\ UNCHANGED <<clock, sse_clients, conn, current_view, latest_screenshot,
                 flask_server, server, lifespan, sent, posts, ncalls>>

----------------------------------------------------------------------------
(* Inbound state sink: the three POST routes.  body is request.json, a     *)
(* JSON object; each handler runs to its reply.                            *)

(* history: a round trip in progress notes that its report came: answered  *)
(* when its deadline has not passed, polled when in addition one more      *)
(* evaluation of its loop is due before the deadline; ids are the request  *)
(* ids the report answers (a capture_screenshot call carries none: "")     *)
NoteReport(name, loop, timeout, ids) ==
  [t \in Threads |->
     IF thread[t].call.name = name /\ thread[t].pc # "idle"
        /\ thread[t].request_id \in ids
     THEN IF thread[t].pc = loop
          THEN [thread[t] EXCEPT
                  !.answered = @ \/ now - thread[t].start_time < timeout,
                  !.polled = @ \/ thread[t].wake - thread[t].start_time < timeout]
          ELSE [thread[t] EXCEPT !.answered = TRUE, !.polled = TRUE]
     ELSE thread[t]]

Success == [status |-> "success", code |-> 200]
Error400(message) == [status |-> "error", code |-> 400, message |-> message]

Reply(route, body, reply) ==
  [posts EXCEPT !.n = @ + 1, !.route = route, !.body = body, !.reply = reply]

(* Faulty variant of view_changed_merge: a report that carries a center    *)
(* is taken for a pan, its zoom is not stored.                             *)
view_changed_merge_PanOnly(view, data) ==
  IF ~IsEmptyDict(data)
  THEN LET v1 == IF HasKey(data, "center") THEN [view EXCEPT !.center = data["center"]]
                 ELSE view
           v2 == IF HasKey(data, "zoom") /\ ~HasKey(data, "center")
                 THEN [v1 EXCEPT !.zoom = data["zoom"]] ELSE v1
       IN IF HasKey(data, "bounds") THEN [v2 EXCEPT !.bounds = data["bounds"]] ELSE v2
  ELSE view

(* flask_server.py 113-119 *)
view_changed_merge(view, data) ==
  IF ~IsEmptyDict(data)
  THEN LET v1 == IF HasKey(data, "center") THEN [view EXCEPT !.center = data["center"]]
                 ELSE view
           v2 == IF HasKey(data, "zoom") THEN [v1 EXCEPT !.zoom = data["zoom"]] ELSE v1
       IN IF HasKey(data, "bounds") THEN [v2 EXCEPT !.bounds = data["bounds"]] ELSE v2
  ELSE view

(* flask_server.py 111-120 *)
ViewChanged(body) ==
  /\ posts.n < MaxPosts
  /\ current_view' = view_changed_merge(current_view, body)
  /\ posts' = Reply("viewChanged", body, Success)
  /\ UNCHANGED <<clock, sse_clients, conn, latest_screenshot, geolocate_responses,
                 flask_server, server, lifespan, thread, sent, ncalls>>

(* flask_server.py 125: if data and "image" in data *)
save_screenshot_accepts(data) == ~IsEmptyDict(data) /\ HasKey(data, "image")

(* flask_server.py 123-129 *)
SaveScreenshot(body) ==
  /\ posts.n < MaxPosts
  /\ IF save_screenshot_accepts(body)
     THEN /\ latest_screenshot' = Some(body["image"])
          /\ posts' = Reply("screenshot", body, Success)
          /\ thread' = NoteReport("capture_screenshot", "cap_loop",
                                  ScreenshotTimeoutMs, {""})
     ELSE /\ UNCHANGED <<latest_screenshot, thread>>
          /\ posts' = Reply("screenshot", body, Error400("No image data provided"))
  /\ UNCHANGED <<clock, sse_clients, conn, current_view, geolocate_responses,
                 flask_server, server, lifespan, sent, ncalls>>

(* flask_server.py 134: if data and "requestId" in data and "results" in data *)
geolocate_response_accepts(data) ==
  ~IsEmptyDict(data) /\ HasKey(data, "requestId") /\ HasKey(data, "results")

(* Faulty variant of geolocate_response_store: every report is filed under *)
(* one fixed key, whatever request id it carries.                          *)
geolocate_response_store_OneKey(responses, data) ==
  DictSet(responses, "latest", data["results"])

(* flask_server.py 139: self.geolocate_responses[request_id] = results *)
geolocate_response_store(responses, data) ==
  DictSet(responses, data["requestId"], data["results"])

(* Faulty variant of GeolocateResponse: a report that carries a request id *)
(* and no results is stored as an empty result list.                       *)
GeolocateResponse_Partial(body) ==
  /\ posts.n < MaxPosts
  /\ IF ~IsEmptyDict(body) /\ HasKey(body, "requestId")
     THEN LET results == IF HasKey(body, "results") THEN body["results"] ELSE <<>>
          IN /\ geolocate_responses' =
                  DictSet(geolocate_responses, body["requestId"], results)
             /\ posts' = [Reply("geolocateResponse", body, Success) EXCEPT
                            !.reported = DictSet(@, body["requestId"], results)]
             /\ thread' = NoteReport("geolocate", "geo_loop", GeolocateTimeoutMs,
                                     {body["requestId"]})
     ELSE /\ UNCHANGED <<geolocate_responses, thread>>
          /\ posts' = Reply("geolocateResponse", body,
                            Error400("Invalid geolocate response data"))
  /\ UNCHANGED <<clock, sse_clients, conn, current_view, latest_screenshot,
                 flask_server, server, lifespan, sent, ncalls>>

(* flask_server.py 132-143 *)
GeolocateResponse(body) ==
  /\ posts.n < MaxPosts
  /\ IF geolocate_response_accepts(body)
     THEN /\ geolocate_responses' = geolocate_response_store(geolocate_responses, body)
          /\ posts' = [Reply("geolocateResponse", body, Success) EXCEPT
                         !.reported = DictSet(@, body["requestId"], body["results"])]
          /\ thread' = NoteReport("geolocate", "geo_loop", GeolocateTimeoutMs,
                                  {body["requestId"]})
     ELSE /\ UNCHANGED <<geolocate_responses, thread>>
          /\ posts' = Reply("geolocateResponse", body,
                            Error400("Invalid geolocate response data"))
  /\ UNCHANGED <<clock, sse_clients, conn, current_view, latest_screenshot,
                 flask_server, server, lifespan, sent, ncalls>>

----------------------------------------------------------------------------
(* FlaskServer.get_current_view, 274: return self.current_view.  The dict  *)
(* itself is returned, no copy is made.                                    *)
GetCurrentView(t) ==
  /\ thread[t].pc = "idle"
  /\ ncalls < MaxCalls
  /\ ncalls' = ncalls + 1
  /\ thread' = [thread EXCEPT ![t] =
       Returned([thread[t] EXCEPT !.call = [name |-> "get_current_view"],
                                  !.bc = 0, !.request_id = "",
                                  !.answered = FALSE, !.polled = FALSE],
                RetRef("current_view", current_view))]
  /\ UNCHANGED <<clock, sse_clients, conn, shared, sent, posts>>

(* reading through a returned value *)
Deref(r) == IF r.kind = "ref" THEN current_view ELSE r.value

----------------------------------------------------------------------------
(* FlaskServer.start and is_port_in_use *)

NewServer == [pc |-> "new", port |-> DefaultPort, original_port |-> DefaultPort,
              attempt |-> 0, in_use |-> FALSE, probed |-> <<>>, ret |-> NoRet,
              server_thread |-> FALSE]

(* FlaskServer(host, port).start(), 153-156: original_port = self.port;    *)
(* max_attempts = 10; the loop begins with attempt 0.                      *)
StartBegin(port) ==
  /\ server.pc = "new"
  /\ server' = [server EXCEPT !.pc = "probe", !.port = port,
                              !.original_port = port, !.attempt = 0]
  /\ UNCHANGED <<clock, sse_clients, conn, current_view, latest_screenshot,
                 geolocate_responses, flask_server, lifespan, thread, sent, posts,
                 ncalls>>

(* 145-148, 157: is_port_in_use(self.port).  connect_ex returns 0 when     *)
(* something listens on the port; it raises OverflowError for a port       *)
(* outside 0..65535, and start() has no handler for it.                    *)
StartProbe(listening) ==
  /\ server.pc = "probe"
  /\ server' =
       IF server.port < 0 \/ server.port > MaxPort
       THEN [server EXCEPT !.pc = "done", !.ret = RetRaise("OverflowError")]
       ELSE [server EXCEPT !.pc = "branch", !.in_use = listening,
                           !.probed = Append(@, <<server.port, listening>>)]
  /\ UNCHANGED <<clock, sse_clients, conn, current_view, latest_screenshot,
                 geolocate_responses, flask_server, lifespan, thread, sent, posts,
                 ncalls>>

(* 157-178: the body of the loop after the probe *)
StartBranch ==
  /\ server.pc = "branch"
  /\ server' =
       IF server.in_use
       THEN IF server.attempt = max_attempts - 1
            THEN [server EXCEPT !.pc = "done", !.port = server.original_port,
                                !.ret = RetValue(FALSE)]
            ELSE [server EXCEPT !.pc = "probe", !.port = @ + 1, !.attempt = @ + 1]
       ELSE [server EXCEPT !.pc = "done", !.server_thread = TRUE,
                           !.ret = RetValue(TRUE)]
  /\ UNCHANGED <<clock, sse_clients, conn, current_view, latest_screenshot,
                 geolocate_responses, flask_server, lifespan, thread, sent, posts,
                 ncalls>>

----------------------------------------------------------------------------
(* query_osm_postgres.  A query text is the sequence of its tokens; two    *)
(* consecutive tokens are separated by white space; "\n" ends a line.      *)

(* str.lower() on the words that matter *)
Lower(w) ==
  CASE w = "SELECT" -> "select"
    [] w = "DROP" -> "drop"
    [] w = "Insert" -> "insert"
    [] OTHER -> w

(* server.py 172: re.sub(r"--.*$", "", query, flags=re.MULTILINE) *)
RECURSIVE StripLineComments(_, _)
StripLineComments(q, inside) ==
  IF q = <<>> THEN <<>>
  ELSE IF Head(q) = "\n" THEN <<"\n">> \o StripLineComments(Tail(q), FALSE)
  ELSE IF inside \/ Head(q) = "--" THEN StripLineComments(Tail(q), TRUE)
  ELSE <<Head(q)>> \o StripLineComments(Tail(q), FALSE)

(* server.py 173: re.sub(r"/\*.*?\*/", "", query, flags=re.DOTALL); a      *)
(* comment that is never closed is left in place                           *)
RECURSIVE StripBlockComments(_)
StripBlockComments(q) ==
  IF q = <<>> THEN <<>>
  ELSE IF Head(q) = "/*" /\ \E i \in 2..Len(q) : q[i] = "*/"
  THEN LET close == Min({i \in 2..Len(q) : q[i] = "*/"})
       IN StripBlockComments(SubSeq(q, close + 1, Len(q)))
  ELSE <<Head(q)>> \o StripBlockComments(Tail(q))

(* server.py 174: query.strip().lower() *)
StripLower(q) ==
  LET words == {i \in DOMAIN q : q[i] # "\n"}
  IN IF words = {} THEN <<>>
     ELSE LET first == Min(words)
              last == CHOOSE i \in words : \A j \in words : j <= i
          IN [i \in 1..(last - first + 1) |-> Lower(q[first + i - 1])]

(* server.py 177-188 *)
write_operations == {"insert", "update", "delete", "drop", "create", "alter",
                     "truncate", "grant", "revoke", "set"}

(* server.py 169-194: each pattern is anchored at the start of the text    *)
(* (no re.MULTILINE in re.search) and wants white space after the keyword  *)
is_read_only_query(query) ==
  LET q == StripLower(StripBlockComments(StripLineComments(query, FALSE)))
  IN ~(Len(q) >= 2 /\ q[1] \in write_operations)

(* The transaction state of the psycopg2 connection (no autocommit): the   *)
(* first statement opens a transaction; a statement that fails leaves it   *)
(* aborted, and the server then refuses every statement until a rollback.  *)
(* outcome is what the database answers to the query in a transaction      *)
(* that is not aborted: rows, no rows, a statement timeout, another error. *)

(* Faulty variant of execute_query: the except clauses re-raise without    *)
(* calling self.conn.rollback().                                           *)
execute_query_NoRollback(tx, outcome) ==
  LET answer == IF tx = "aborted" THEN "error" ELSE outcome
  IN IF answer \in {"rows", "empty"}
     THEN [tx |-> "open", kind |-> "return", value |-> answer]
     ELSE [tx |-> "aborted", kind |-> "raise",
           value |-> IF answer = "timeout" THEN "Query execution timed out"
                     ELSE "error"]

(* server.py 34-63: SET statement_timeout, the query, fetchmany; on        *)
(* QueryCanceled rollback and raise TimeoutError("Query execution timed    *)
(* out"), on any other exception rollback and re-raise it.                 *)
execute_query(tx, outcome) ==
  LET answer == IF tx = "aborted" THEN "error" ELSE outcome
  IN IF answer \in {"rows", "empty"}
     THEN [tx |-> "open", kind |-> "return", value |-> answer]
     ELSE [tx |-> "idle", kind |-> "raise",
           value |-> IF answer = "timeout" THEN "Query execution timed out"
                     ELSE "error"]

(* server.py 577-618: the two guards, execute_query(query, max_rows=100),  *)
(* the table built from the rows; every exception is turned into text.     *)
(* execute_query has no await: it runs from its call to its return or      *)
(* raise without another tool running in between.                          *)
QueryOsmPostgres(t, query, outcome) ==
  /\ thread[t].pc = "idle"
  /\ ncalls < MaxCalls
  /\ ncalls' = ncalls + 1
  /\ LET reaches == lifespan.db_conn /\ is_read_only_query(query)
         th == [thread[t] EXCEPT
                  !.call = [name |-> "query_osm_postgres", query |-> query,
                            executed |-> reaches, outcome |-> outcome],
                  !.bc = 0, !.request_id = "", !.answered = FALSE, !.polled = FALSE]
         done == execute_query(lifespan.tx, outcome)
         text ==
           IF ~lifespan.db_conn
           THEN "Database connection is not available. Please check your PostgreSQL server."
           ELSE IF ~is_read_only_query(query)
           THEN "Error: Only read-only queries are allowed for security reasons."
           ELSE IF done.kind = "raise"
           THEN IF done.value = "Query execution timed out"
                THEN "Error executing query: Query execution timed out"
                ELSE "Error executing query: error"
           ELSE IF done.value = "empty"
           THEN "Query executed successfully, but returned no results."
           ELSE "table"
     IN /\ thread' = [thread EXCEPT ![t] = Returned(th, RetStr(text, <<>>))]
        /\ lifespan' = IF reaches THEN [lifespan EXCEPT !.tx = done.tx] ELSE lifespan
  /\ UNCHANGED <<clock, sse_clients, conn, current_view, latest_screenshot,
                 geolocate_responses, flask_server, server, sent, posts>>

----------------------------------------------------------------------------
(* app_lifespan (server.py 120-160) *)

(* 126-139: psycopg2.connect(...); any exception is caught and logged, and *)
(* app_ctx.db_conn stays None.  Then FlaskServer(...) is constructed and    *)
(* flask_server.start() is called (143-147).                               *)
LifespanConnect(connected) ==
  /\ lifespan.pc = "connect"
  /\ lifespan' = [pc |-> "start", db_conn |-> connected, tx |-> "idle"]
  /\ UNCHANGED <<clock, sse_clients, conn, current_view, latest_screenshot,
                 geolocate_responses, flask_server, server, thread, sent, posts,
                 ncalls>>

(* 147-151: start() is over.  Its result is not looked at: whenever it     *)
(* returns, app_ctx.flask_server is set and the context is yielded; an     *)
(* exception it raises leaves app_lifespan through the finally clause.     *)
LifespanYield ==
  /\ lifespan.pc = "start"
  /\ server.pc = "done"
  /\ IF server.ret.kind = "raise"
     THEN /\ lifespan' = [lifespan EXCEPT !.pc = "raised"]
          /\ UNCHANGED flask_server
     ELSE /\ lifespan' = [lifespan EXCEPT !.pc = "yielded"]
          /\ flask_server' = TRUE
  /\ UNCHANGED <<clock, sse_clients, conn, current_view, latest_screenshot,
                 geolocate_responses, server, thread, sent, posts, ncalls>>

----------------------------------------------------------------------------
(* The clock *)

Asleep(t) == thread[t].pc \in {"cap_loop", "geo_loop"} /\ now < thread[t].wake
Quiet == \A t \in Threads : thread[t].pc = "idle" \/ Asleep(t)

Deadlines ==
  {thread[t].wake : t \in {u \in Threads : thread[u].pc \in {"cap_loop", "geo_loop"}}}
  \cup {conn[c].wait_start + GetTimeoutMs :
          c \in {d \in Conns : conn[d].pc = "waiting" /\ conn[d].client_queue = <<>>}}

(* one millisecond passes *)
TickQuantum ==
  /\ Quiet
  /\ quanta < MaxQuanta
  /\ now + 1 <= MaxTime
  /\ \A d \in Deadlines : now + 1 <= d
  /\ now' = now + 1
  /\ quanta' = quanta + 1
  /\ UNCHANGED <<sse_clients, conn, shared, thread, sent, posts, ncalls>>

(* time passes until the next sleep or queue wait is over *)
TickDeadline ==
  /\ Quiet
  /\ Deadlines # {}
  /\ Min(Deadlines) > now
  /\ Min(Deadlines) <= MaxTime
  /\ now' = Min(Deadlines)
  /\ UNCHANGED <<quanta, sse_clients, conn, shared, thread, sent, posts, ncalls>>

----------------------------------------------------------------------------
(* FlaskServer.__init__ (lines 54-67) and app_lifespan (server.py 143-148) *)

InitialView == [center |-> <<0, 0>>, zoom |-> 2,
                bounds |-> << <<-85, -180>>, <<85, 180>> >>]

Init ==
  /\ now = 0
  /\ quanta = 0
  /\ sse_clients = <<>>
  /\ conn = [c \in Conns |-> NewConn]
  /\ current_view = InitialView
  /\ latest_screenshot = None
  /\ geolocate_responses = EmptyDict
  /\ flask_server = TRUE
  /\ server = NewServer
  /\ lifespan = [pc |-> "yielded", db_conn |-> TRUE, tx |-> "idle"]
  /\ thread = [t \in Threads |-> NewThread]
  /\ sent = <<>>
  /\ posts = [n |-> 0, route |-> "", body |-> EmptyDict, reply |-> Success,
              reported |-> EmptyDict]
  /\ ncalls = 0

(* the process before app_lifespan has run: no context, no map server *)
InitLifespan ==
  /\ now = 0
  /\ quanta = 0
  /\ sse_clients = <<>>
  /\ conn = [c \in Conns |-> NewConn]
  /\ current_view = InitialView
  /\ latest_screenshot = None
  /\ geolocate_responses = EmptyDict
  /\ flask_server = FALSE
  /\ server = NewServer
  /\ lifespan = [pc |-> "connect", db_conn |-> FALSE, tx |-> "idle"]
  /\ thread = [t \in Threads |-> NewThread]
  /\ sent = <<>>
  /\ posts = [n |-> 0, route |-> "", body |-> EmptyDict, reply |-> Success,
              reported |-> EmptyDict]
  /\ ncalls = 0

----------------------------------------------------------------------------
(* Inputs *)

Point == <<37, -122>>
BadPoint == <<37>>
Box == <<Point, <<38, -121>> >>

ChannelCenters == {Some(Point)}
ChannelZooms == {None, Some(5), Some(20)}

(* the arguments of the map tools *)
CoordLists == SeqsUpTo({Point}, MaxPoints) \cup {<<Point, BadPoint, Point>>}
Centers == {None, Some(<<>>), Some(Point), Some(BadPoint)}
Zooms == {None, Some(0), Some(5), Some(19), Some(20), Some(-1)}
BoundsArgs == {None, Some(Box), Some(<<Point>>)}
Colors == {None, Some("red")}
Opacities == {None, Some(0), Some(5), Some(10), Some(15), Some(-1)}
Weights == {None, Some(0), Some(3), Some(-1)}
DashArrays == {None, Some("5,10")}

Images == {"", "img1", "img2"}
Queries == {"Paris"}
ResultLists == {<<>>, <<"Paris, France">>}

(* the request ids the GEOLOCATE commands sent so far carry, and one more *)
IssuedIds ==
  {sent[b].message.json.data.requestId :
     b \in {i \in DOMAIN sent : sent[i].message.json.type = "GEOLOCATE"}}
RequestIds == IssuedIds \cup {"other"}

ViewBodies ==
  {EmptyDict, [zoom |-> 5], [center |-> Point], [bounds |-> Box],
   [center |-> Point, zoom |-> 7], [zoom |-> 7, bounds |-> Box],
   [center |-> <<1, 1>>, zoom |-> 5, bounds |-> Box]}

ScreenshotBodies == {[image |-> i] : i \in Images} \cup {EmptyDict, [format |-> "png"]}

GeolocateBodies ==
  {[requestId |-> r, results |-> l] : r \in RequestIds, l \in ResultLists}
  \cup {EmptyDict} \cup {[requestId |-> r] : r \in RequestIds}
  \cup {[results |-> l] : l \in ResultLists}

----------------------------------------------------------------------------
(* The event channel: connections, one caller thread issuing set_map_view, *)
(* and the clock                                                           *)

Stream(c) ==
  \/ Register(c)
  \/ YieldConnected(c)
  \/ QueueGet(c)
  \/ YieldMessage(c)
  \/ YieldPing(c)
  \/ Disconnect(c)

Send(t) ==
  \/ SendLen(t)
  \/ SendSnapshot(t)
  \/ SendPut(t)
  \/ SendReturn(t)

Next ==
  \/ \E c \in Conns : Sse(c) \/ Stream(c)
  \/ \E center \in ChannelCenters, zoom \in ChannelZooms : SetMapView(1, center, zoom, None)
  \/ Send(1)
  \/ TickQuantum
  \/ TickDeadline

Spec == Init /\ [][Next]_vars

----------------------------------------------------------------------------
(* The round trips: one caller thread issuing capture_screenshot and       *)
(* geolocate, the screenshot and geolocate reports of the browser side,    *)
(* and the clock.  No event stream is open: the commands go through        *)
(* send_map_command to an empty registry, the reports are plain POSTs.     *)

Capture(t) ==
  \/ CapturePoll(t)
  \/ CaptureRead(t)
  \/ CaptureClear(t)

Locate(t) ==
  \/ GeolocatePoll(t)
  \/ GeolocatePop(t)

NextBridge ==
  \/ ncalls < MaxRoundTrips /\ CaptureScreenshot(1)
  \/ ncalls < MaxRoundTrips /\ \E query \in Queries : Geolocate(1, query)
  \/ SendLen(1)
  \/ Capture(1)
  \/ Locate(1)
  \/ \E body \in ScreenshotBodies : SaveScreenshot(body)
  \/ \E body \in GeolocateBodies : GeolocateResponse(body)
  \/ TickQuantum
  \/ TickDeadline

SpecBridge == Init /\ [][NextBridge]_vars

----------------------------------------------------------------------------
(* The map tools: one caller thread, every argument combination, and one   *)
(* browser that receives what is broadcast                                 *)

NextTools ==
  \/ Sse(1)
  \/ Register(1)
  \/ YieldConnected(1)
  \/ QueueGet(1)
  \/ YieldMessage(1)
  \/ Disconnect(1)
  \/ /\ ncalls < MaxToolCalls
     /\ \E center \in Centers, zoom \in Zooms, bounds \in BoundsArgs :
          SetMapView(1, center, zoom, bounds)
  \/ /\ ncalls < MaxToolCalls
     /\ \E coordinates \in CoordLists, color \in Colors, fill_color \in Colors,
           fill_opacity \in Opacities, weight \in Weights, fit_bounds \in BOOLEAN :
          AddMapPolygon(1, coordinates, color, fill_color, fill_opacity, weight,
                        fit_bounds)
  \/ /\ ncalls < MaxToolCalls
     /\ \E coordinates \in CoordLists, color \in Colors, weight \in Weights,
           opacity \in Opacities, dash_array \in DashArrays, fit_bounds \in BOOLEAN :
          AddMapLine(1, coordinates, color, weight, opacity, dash_array, fit_bounds)
  \/ Send(1)

SpecTools == Init /\ [][NextTools]_vars

----------------------------------------------------------------------------
(* The five map tools of server.py called with well-formed and ill-formed  *)
(* arguments, one browser connecting, reading and leaving                  *)

NextCommands ==
  \/ NextTools
  \/ /\ ncalls < MaxToolCalls
     /\ \E title \in {"", "Map"}, color \in Colors,
           font_size \in {None, Some("20px")}, background_color \in Colors :
          SetMapTitle(1, title, color, font_size, background_color)
  \/ /\ ncalls < MaxToolCalls
     /\ \E coordinates \in {Point, BadPoint, <<>>},
           text \in {None, Some("San Francisco")},
           title \in {None, Some("SF")}, open_popup \in BOOLEAN :
          AddMapMarker(1, coordinates, text, title, open_popup)

SpecCommands == Init /\ [][NextCommands]_vars

----------------------------------------------------------------------------
(* The view state: the view-changed reports, next to a caller thread       *)
(* issuing set_map_view and another one calling get_current_view           *)

NextView ==
  \/ \E body \in ViewBodies : ViewChanged(body)
  \/ \E center \in ChannelCenters, zoom \in ChannelZooms : SetMapView(1, center, zoom, None)
  \/ SendLen(1)
  \/ GetCurrentView(2)

SpecView == Init /\ [][NextView]_vars

----------------------------------------------------------------------------
(* Every operation next to the view: one browser, one caller thread that   *)
(* issues each tool and each bridge call, the three kinds of reports.  No  *)
(* time passes: the calls are observed at the time they begin.             *)


NextFrame ==
  \/ Sse(1)
  \/ Register(1)
  \/ YieldConnected(1)
  \/ QueueGet(1)
  \/ YieldMessage(1)
  \/ Disconnect(1)
  \/ SetMapView(1, Some(Point), Some(5), None)
  \/ \E color \in Colors : SetMapTitle(1, "Map", color, None, None)
  \/ \E coordinates \in {Point, BadPoint}, text \in {None, Some("San Francisco")} :
        AddMapMarker(1, coordinates, text, None, FALSE)
  \/ AddMapPolygon(1, <<Point, Point, Point>>, None, None, None, None, FALSE)
  \/ AddMapLine(1, <<Point, Point, Point>>, None, None, None, None, FALSE)
  \/ CaptureScreenshot(1)
  \/ \E query \in Queries : Geolocate(1, query)
  \/ GetCurrentView(1)
  \/ Send(1)
  \/ Capture(1)
  \/ Locate(1)
  \/ SaveScreenshot([image |-> "img1"])
  \/ \E r \in RequestIds :
        GeolocateResponse([requestId |-> r, results |-> <<"Paris, France">>])
  \/ \E body \in {EmptyDict, [center |-> Point, zoom |-> 7]} : ViewChanged(body)

SpecFrame == Init /\ [][NextFrame]_vars

----------------------------------------------------------------------------
(* Start-up: one start() call, for a configured port and every outcome of  *)
(* the probes                                                              *)

ConfiguredPorts == {DefaultPort, 8888, 65526, 65530, 65535}

NextStart ==
  \/ \E port \in ConfiguredPorts : StartBegin(port)
  \/ \E listening \in BOOLEAN : StartProbe(listening)
  \/ StartBranch

SpecStart == Init /\ [][NextStart]_vars

----------------------------------------------------------------------------
(* The application: app_lifespan from the database connection attempt to   *)
(* the yielded context, then the query tool and a map tool                 *)

QueryTexts ==
  {<<"SELECT", "1">>, <<"DROP", "table", "t">>, <<"--", "c", "\n", "Insert", "x">>,
   <<"/*", "c", "*/", "select", "2">>, <<"select", "1", ";", "drop", "table", "t">>}

NextLifespan ==
  \/ \E connected \in BOOLEAN : LifespanConnect(connected)
  \/ lifespan.pc = "start" /\ \E port \in ConfiguredPorts : StartBegin(port)
  \/ lifespan.pc = "start" /\ \E listening \in BOOLEAN : StartProbe(listening)
  \/ lifespan.pc = "start" /\ StartBranch
  \/ LifespanYield
  \/ /\ lifespan.pc = "yielded"
     /\ \E t \in Threads, query \in QueryTexts,
           outcome \in {"rows", "empty", "timeout", "error"} :
          QueryOsmPostgres(t, query, outcome)
  \/ lifespan.pc = "yielded" /\ SetMapView(1, Some(Point), Some(5), None)
  \/ SendLen(1)

SpecLifespan == InitLifespan /\ [][NextLifespan]_vars

----------------------------------------------------------------------------
(* Broadcasts with failing enqueues: two browsers that connect, receive    *)
(* and disconnect, one caller thread issuing set_map_view, and puts that   *)
(* may raise                                                               *)

NextFault ==
  \/ \E c \in Conns : Sse(c)
  \/ \E c \in Conns : Register(c)
  \/ \E c \in Conns : YieldConnected(c)
  \/ \E c \in Conns : QueueGet(c)
  \/ \E c \in Conns : YieldMessage(c)
  \/ \E c \in Conns : Disconnect(c)
  \/ SetMapView(1, Some(Point), Some(5), None)
  \/ Send(1)
  \/ SendPutRaises(1)
  \/ TickQuantum

SpecFault == Init /\ [][NextFault]_vars

----------------------------------------------------------------------------
(* Delivery: two browsers that connect, receive and disconnect, and one    *)
(* caller thread issuing set_map_view.  A handler thread that can run does *)
(* run: the generator reaches its first yield, the server keeps asking a   *)
(* connected client's generator for its next frame, and a get() returns    *)
(* once an item is in the queue.                                           *)

NextDeliver ==
  \/ \E c \in Conns : Sse(c)
  \/ \E c \in Conns : Register(c)
  \/ \E c \in Conns : YieldConnected(c)
  \/ \E c \in Conns : QueueGet(c)
  \/ \E c \in Conns : YieldMessage(c)
  \/ \E c \in Conns : Disconnect(c)
  \/ SetMapView(1, Some(Point), Some(5), None)
  \/ Send(1)
  \/ TickQuantum

SpecDeliver ==
  /\ Init
  /\ [][NextDeliver]_vars
  /\ \A c \in Conns :
       WF_vars(YieldConnected(c)) /\ WF_vars(QueueGet(c)) /\ WF_vars(YieldMessage(c))

----------------------------------------------------------------------------
(* Enqueueing: the same browsers and caller, where only the caller thread  *)
(* is sure to run: a thread that is inside send_map_command and can take   *)
(* its next step takes it, while a handler may stay suspended at a yield   *)
(* or in queue.get() for ever (a slow client, or one that is gone and      *)
(* whose handler has not been told yet).                                   *)

SpecEnqueue == Init /\ [][NextDeliver]_vars /\ WF_vars(Send(1))

----------------------------------------------------------------------------
(* Several browsers: two connections, one caller thread issuing geolocate, *)
(* and browsers that answer a GEOLOCATE command written to their stream    *)
(* with a geolocate response carrying the command's request id             *)

NextBrowsers ==
  \/ \E c \in Conns : Sse(c)
  \/ \E c \in Conns : Register(c)
  \/ \E c \in Conns : YieldConnected(c)
  \/ \E c \in Conns : QueueGet(c)
  \/ \E c \in Conns : YieldMessage(c)
  \/ \E c \in Conns : Disconnect(c)
  \/ \E query \in Queries : Geolocate(1, query)
  \/ Send(1)
  \/ Locate(1)
  \/ \E c \in Conns : \E i \in DOMAIN conn[c].stream : \E results \in ResultLists :
        /\ conn[c].stream[i].frame = "data"
        /\ conn[c].stream[i].entry.message.json.type = "GEOLOCATE"
        /\ GeolocateResponse(
             [requestId |-> conn[c].stream[i].entry.message.json.data.requestId,
              results |-> results])
  \/ TickQuantum

SpecBrowsers == Init /\ [][NextBrowsers]_vars

----------------------------------------------------------------------------
(* Concurrent geolocate calls: FlaskServer.geolocate called from several   *)
(* threads, the geolocate reports of the browser side, and the clock; the  *)
(* calls begin at time 0 or when a sleeping call wakes up                  *)

RaceBodies == {[requestId |-> r, results |-> <<"Paris, France">>] : r \in IssuedIds}

NextRace ==
  \/ \E t \in Threads, query \in Queries : Geolocate(t, query)
  \/ \E t \in Threads : SendLen(t)
  \/ \E t \in Threads : GeolocatePoll(t)
  \/ \E t \in Threads : GeolocatePop(t)
  \/ \E body \in RaceBodies : GeolocateResponse(body)
  \/ TickDeadline

SpecRace == Init /\ [][NextRace]_vars

----------------------------------------------------------------------------
(* Concurrent capture_screenshot calls: FlaskServer.capture_screenshot     *)
(* called from several threads, the screenshot reports of the browser      *)
(* side, each carrying an image of its own, and the clock                  *)

PostedImages == <<"img1", "img2">>

NextCapture ==
  \/ \E t \in Threads : CaptureScreenshot(t)
  \/ \E t \in Threads : SendLen(t)
  \/ \E t \in Threads : CapturePoll(t)
  \/ \E t \in Threads : CaptureRead(t)
  \/ \E t \in Threads : CaptureClear(t)
  \/ posts.n < Len(PostedImages)
     /\ SaveScreenshot([image |-> PostedImages[posts.n + 1]])
  \/ TickDeadline

SpecCapture == Init /\ [][NextCapture]_vars

----------------------------------------------------------------------------
(* What a connection has been handed: the messages already written to its  *)
(* stream, then the ones still in its queue                                *)

DataFrames(c) == SelectSeq(conn[c].stream, LAMBDA f : f.frame = "data")
Observed(c) == [i \in DOMAIN DataFrames(c) |-> DataFrames(c)[i].entry]
Received(c) == Observed(c) \o conn[c].client_queue
Copies(c, b) == Cardinality({i \in DOMAIN Received(c) : Received(c)[i].bc = b})
Live == {c \in Conns : conn[c].pc \in {"registered", "yielded", "waiting"}}
Registered == {sse_clients[i][2] : i \in DOMAIN sse_clients}

----------------------------------------------------------------------------
(* C1: the broadcasts are numbered in the order of the send_map_command    *)
(* calls; on every connection the messages appear on the stream, and wait  *)
(* in the queue behind them, in increasing call order.                     *)
C1_BroadcastOrder ==
  \A c \in Conns :
    \A i, j \in DOMAIN Received(c) :
      i < j => Received(c)[i].bc < Received(c)[j].bc

(* a connection that stayed open has been written two commands *)
C1_Witness ==
  \E c \in Conns :
    /\ conn[c].pc \in {"yielded", "waiting"}
    /\ Len(Observed(c)) >= 2
    /\ Observed(c)[1].bc = 1
    /\ Observed(c)[2].bc = 2

(* C2 as stated: a connection is never handed a message of a broadcast     *)
(* whose call had begun before the connection registered.                  *)
C2_OnlyBroadcastsBegunLater ==
  \A c \in Conns :
    \A i \in DOMAIN Received(c) : Received(c)[i].bc \notin conn[c].begun

(* C2, amended: a connection is never handed a message of a broadcast that *)
(* had taken its snapshot of the registry (or had found it empty) before   *)
(* the connection registered; its stream is its own connected frame, then  *)
(* only pings and messages of broadcasts that took their snapshot later.   *)
C2_LateJoinIsolation ==
  \A c \in Conns :
    /\ \A i \in DOMAIN Received(c) : Received(c)[i].bc \notin conn[c].joined
    /\ \A i \in DOMAIN conn[c].stream :
         IF i = 1
         THEN conn[c].stream[i] = ConnectedFrame(conn[c].client_id)
         ELSE \/ conn[c].stream[i] = PingFrame
              \/ /\ conn[c].stream[i].frame = "data"
                 /\ conn[c].stream[i].entry.bc \notin conn[c].joined

(* a connection that registered after the first broadcast was written the  *)
(* second one                                                              *)
C2_Witness ==
  \E c \in Conns :
    /\ 1 \in conn[c].joined
    /\ \E i \in DOMAIN Observed(c) : Observed(c)[i].bc = 2

(* C3 as stated: the registry holds one entry for each connection that     *)
(* registered and has not disconnected, so a broadcast reaches exactly     *)
(* their queues.                                                           *)
C3_RegistryIsLiveClients ==
  /\ RegLen(sse_clients) = Cardinality(Live)
  /\ Registered = Live
  /\ \A b \in DOMAIN sent : sent[b].state = "done" =>
       \A c \in Conns : Copies(c, b) = (IF c \in sent[b].targets THEN 1 ELSE 0)

(* C8: a send_map_command that finds the registry empty returns at once;  *)
(* the tool that made it returns its normal status and raises nothing, no  *)
(* queue, no stream, the registry and the shared state are left as they    *)
(* were, and no message of that broadcast is ever in a queue or a stream.  *)
C8_NoOpBroadcast ==
  /\ [][\A t \in Threads :
          (/\ thread[t].pc = "send_len"
           /\ RegLen(sse_clients) = 0
           /\ thread'[t] # thread[t])
          => /\ thread'[t].pc = "idle"
             /\ thread'[t].ret = thread[t].pending
             /\ thread'[t].ret.kind = "str"
             /\ sent'[thread[t].bc].state = "noclients"
             /\ UNCHANGED <<conn, sse_clients, shared>>]_vars
  /\ [](\A b \in DOMAIN sent : sent[b].state = "noclients" =>
          \A c \in Conns : Copies(c, b) = 0)

(* a set_map_view call has returned success after finding nobody listening *)
C8_Witness ==
  \E t \in Threads :
    /\ thread[t].pc = "idle"
    /\ thread[t].bc \in DOMAIN sent
    /\ sent[thread[t].bc].state = "noclients"
    /\ thread[t].ret.kind = "str"
    /\ thread[t].ret.text = "Map view updated successfully"

(* C9: once a broadcast has returned, every connection whose queue was in  *)
(* the registry when the snapshot was taken has been handed exactly one    *)
(* copy of the serialized command built by that call, and no other         *)
(* connection has been handed any; while the loop runs no connection holds *)
(* more than one copy, and every copy is the serialized command.           *)
C9_BroadcastVerbatim ==
  \A b \in DOMAIN sent :
    /\ sent[b].message.json.type = "SET_VIEW"
    /\ \A c \in Conns :
         /\ \A i \in DOMAIN Received(c) :
              Received(c)[i].bc = b => Received(c)[i].message = sent[b].message
         /\ Copies(c, b) <= (IF c \in sent[b].targets THEN 1 ELSE 0)
         /\ sent[b].state = "done" =>
              Copies(c, b) = (IF c \in sent[b].targets THEN 1 ELSE 0)

(* a broadcast that found two clients has returned *)
C9_Witness ==
  \E b \in DOMAIN sent :
    /\ sent[b].state = "done"
    /\ Cardinality(sent[b].targets) = 2
    /\ \A c \in sent[b].targets : Copies(c, b) = 1

(* C10 as stated: the first frame written on a stream is the connected     *)
(* frame with the connection's id, and the registry holds the connection's *)
(* queue under that id when the frame is written.                          *)
C10_ConnectedFirst ==
  [][\A c \in Conns :
       (conn[c].stream = <<>> /\ conn'[c].stream # <<>>)
       => /\ conn'[c].stream = <<ConnectedFrame(conn[c].client_id)>>
          /\ RegHas(sse_clients, conn[c].client_id)
          /\ RegGet(sse_clients, conn[c].client_id) = c]_vars

(* C5: a view-changed report sets each of center, zoom and bounds that it  *)
(* carries to the reported value, leaves each field it does not carry as   *)
(* it was, and is answered with success.                                   *)
C5_PartialViewMerge ==
  [][(posts'.n = posts.n + 1 /\ posts'.route = "viewChanged")
     => /\ DOMAIN current_view' = {"center", "zoom", "bounds"}
        /\ \A f \in {"center", "zoom", "bounds"} :
             current_view'[f] = IF HasKey(posts'.body, f) THEN posts'.body[f]
                                ELSE current_view[f]
        /\ posts'.reply = Success
        /\ posts'.reply.status = "success"]_vars

(* a report of the zoom alone arrived after the view had been moved: the   *)
(* zoom is the reported one, center and bounds are the ones of before      *)
C5_Witness ==
  /\ posts.n = 2
  /\ posts.route = "viewChanged"
  /\ posts.body = [zoom |-> 5]
  /\ current_view = [center |-> <<1, 1>>, zoom |-> 5, bounds |-> Box]
  /\ current_view.center # InitialView.center

(* C6: the arguments the tools must refuse *)
TooFew(call, least) == Len(call.coordinates) < least
OutOfUnit(o) == o # None /\ (Get(o) < 0 \/ Get(o) > OpacityOne)
Negative(o) == o # None /\ Get(o) < 0

Refused(call) ==
  \/ /\ call.name = "add_map_polygon"
     /\ TooFew(call, 3) \/ OutOfUnit(call.fill_opacity) \/ Negative(call.weight)
  \/ /\ call.name = "add_map_line"
     /\ TooFew(call, 2) \/ OutOfUnit(call.opacity) \/ Negative(call.weight)

ErrorStrings ==
  {"Error: coordinates must be a list of [latitude, longitude] points.",
   "Error: a polygon requires at least 3 points.",
   "Error: a line requires at least 2 points.",
   "Error: fill_opacity must be between 0.0 and 1.0.",
   "Error: opacity must be between 0.0 and 1.0.",
   "Error: weight must be a positive integer."}

(* C6: add_map_polygon with fewer than 3 points, add_map_line with fewer   *)
(* than 2 points, an opacity outside [0, 1] or a negative weight returns   *)
(* an error string at once, the call makes no send_map_command, and no     *)
(* SHOW_POLYGON or SHOW_LINE command with such arguments is ever built or  *)
(* handed to a client.                                                     *)
C6_ValidationRejects ==
  /\ \A t \in Threads :
       Refused(thread[t].call)
       => /\ thread[t].pc = "idle"
          /\ thread[t].ret.kind = "str"
          /\ thread[t].ret.text \in ErrorStrings
          /\ thread[t].bc = 0
          /\ Len(sent) < ncalls
  /\ \A b \in DOMAIN sent :
       LET command == sent[b].message.json
       IN /\ command.type = "SHOW_POLYGON"
             => /\ Len(command.data.coordinates) >= 3
                /\ HasKey(command.data.options, "fillOpacity")
                   => command.data.options["fillOpacity"] \in 0..OpacityOne
                /\ HasKey(command.data.options, "weight")
                   => command.data.options["weight"] >= 0
          /\ command.type = "SHOW_LINE"
             => /\ Len(command.data.coordinates) >= 2
                /\ HasKey(command.data.options, "opacity")
                   => command.data.options["opacity"] \in 0..OpacityOne
                /\ HasKey(command.data.options, "weight")
                   => command.data.options["weight"] >= 0
  /\ \A c \in Conns : \A i \in DOMAIN Received(c) :
       Received(c)[i].bc \in DOMAIN sent

(* a polygon of two well-formed points was refused while a browser was     *)
(* listening, and the browser was handed nothing                           *)
C6_Witness ==
  \E t \in Threads :
    /\ thread[t].call.name = "add_map_polygon"
    /\ Len(thread[t].call.coordinates) = 2
    /\ thread[t].ret.kind = "str"
    /\ thread[t].ret.text = "Error: a polygon requires at least 3 points."
    /\ conn[1].pc = "waiting"
    /\ conn[1].client_queue = <<>>
    /\ Observed(1) = <<>>

(* The round trips: a call that has returned, and the step that returns *)
Done(t, name) ==
  thread[t].call.name = name /\ thread[t].pc = "idle" /\ thread[t].ret # NoRet
Returns(t, name) ==
  thread[t].call.name = name /\ thread[t].pc # "idle" /\ thread'[t].pc = "idle"

C7_TimeoutReturnsNone ==
  [][\A t \in Threads :
       (Returns(t, "capture_screenshot") /\ ~thread'[t].answered)
       => /\ thread'[t].ret = RetNone
          /\ now - thread[t].start_time >= ScreenshotTimeoutMs
          /\ now - thread[t].start_time <= ScreenshotTimeoutMs + PollMs]_vars

(* C11: a connection's handler ends only in its GeneratorExit clause, at a *)
(* yield; when it has run the connection's client id is not a key of the   *)
(* registry; from then on the registry never holds the connection's queue, *)
(* and no send_map_command that takes its snapshot afterwards has the      *)
(* queue among its targets or puts a message into it.                      *)
C11_DisconnectUnregisters ==
  /\ [][\A c \in Conns :
          (conn[c].pc # "closed" /\ conn'[c].pc = "closed")
          => /\ conn[c].pc = "yielded"
             /\ ~RegHas(sse_clients', conn[c].client_id)
             /\ sse_clients' = RegDel(sse_clients, conn[c].client_id)]_vars
  /\ [](\A c \in Conns : conn[c].pc = "closed" => c \notin Registered)
  /\ [][\A c \in Conns : \A b \in DOMAIN sent :
          (conn[c].pc = "closed" /\ sent[b].state = "begun")
          => /\ c \notin sent'[b].targets
             /\ Copies(c, b) = 0
             /\ conn'[c].client_queue = conn[c].client_queue]_vars

(* a client that had received the first broadcast disconnected, and a      *)
(* second broadcast then went to the other client only                     *)
C11_Witness ==
  \E c \in Conns :
    /\ conn[c].pc = "closed"
    /\ Copies(c, 1) = 1
    /\ 2 \in DOMAIN sent
    /\ sent[2].state = "done"
    /\ sent[2].targets = Conns \ {c}
    /\ Copies(c, 2) = 0

(* C12: a screenshot report without an image field, and a geolocate       *)
(* response report without requestId or without results, is answered with  *)
(* the error status (400) and leaves latest_screenshot,                    *)
(* geolocate_responses, the view and the registry as they were.            *)
C12_MalformedReportRejected ==
  [][(/\ posts'.n = posts.n + 1
      /\ \/ posts'.route = "screenshot" /\ ~HasKey(posts'.body, "image")
         \/ /\ posts'.route = "geolocateResponse"
            /\ ~HasKey(posts'.body, "requestId") \/ ~HasKey(posts'.body, "results"))
     => /\ posts'.reply.status = "error"
        /\ posts'.reply.code = 400
        /\ UNCHANGED <<latest_screenshot, geolocate_responses, current_view,
                       sse_clients>>]_vars

(* a geolocate response without results was refused while an image and no  *)
(* result was stored                                                       *)
C12_Witness ==
  /\ posts.route = "geolocateResponse"
  /\ HasKey(posts.body, "requestId")
  /\ ~HasKey(posts.body, "results")
  /\ posts.reply.status = "error"
  /\ latest_screenshot = Some("img1")
  /\ IsEmptyDict(geolocate_responses)

(* C13: the arguments set_map_view must refuse *)
IsPair(p) == Len(p) = 2 /\ AllNumbers(p)
IsBox(b) == Len(b) = 2 /\ \A i \in DOMAIN b : IsPair(b[i])

RefusedView(call) ==
  /\ call.name = "set_map_view"
  /\ \/ call.zoom # None /\ (Get(call.zoom) < 0 \/ Get(call.zoom) > 19)
     \/ call.center # None /\ ~IsPair(Get(call.center))
     \/ call.bounds # None /\ ~IsBox(Get(call.bounds))
     \/ call.center = None /\ call.zoom = None /\ call.bounds = None

ViewErrorStrings ==
  {"Error: center must be a [latitude, longitude] pair of numbers.",
   "Error: zoom must be an integer between 0 and 19.",
   "Error: bounds must be [[south, west], [north, east]] coordinates.",
   "Error: at least one of center, zoom, or bounds must be provided."}

(* C13 as stated: set_map_view with a zoom outside 0..19, a center that is *)
(* not a pair of numbers, bounds that are not two pairs of numbers, or     *)
(* none of the three returns an error string at once and makes no          *)
(* send_map_command.                                                       *)
C13_ViewValidationRejects ==
  \A t \in Threads :
    RefusedView(thread[t].call)
    => /\ thread[t].pc = "idle"
       /\ thread[t].ret.kind = "str"
       /\ thread[t].ret.text \in ViewErrorStrings
       /\ thread[t].bc = 0

(* C14 as stated: the data of the SET_VIEW command built by a set_map_view *)
(* call that passed validation holds exactly those of bounds, center and   *)
(* zoom that the caller gave, each with the given value, and the success   *)
(* message names the fields that were sent.                                *)
C14_SetViewCarriesProvided ==
  \A t \in Threads :
    (thread[t].call.name = "set_map_view" /\ thread[t].bc \in DOMAIN sent)
    => LET call == thread[t].call
           command == sent[thread[t].bc].message.json
           provided == {f \in {"bounds", "center", "zoom"} : call[f] # None}
           status == IF thread[t].pc = "idle" THEN thread[t].ret
                     ELSE thread[t].pending
       IN /\ command.type = "SET_VIEW"
          /\ DOMAIN command.data = provided
          /\ \A f \in provided : command.data[f] = Get(call[f])
          /\ {status.parts[i][1] : i \in DOMAIN status.parts} = DOMAIN command.data

(* C15 as stated: a capture_screenshot call returns an image only if a     *)
(* screenshot report arrived between its invocation and its return; an     *)
(* image that was in the slot before the call began is not returned.       *)
C15_OnlyOwnScreenshot ==
  [][\A t \in Threads :
       (Returns(t, "capture_screenshot") /\ thread'[t].ret.kind = "value")
       => thread'[t].answered]_vars

(* C16 as stated: a geolocate call that consumes a stored result removes  *)
(* the entry and does not raise, and no more calls return results than     *)
(* results were reported.                                                  *)
C16_ConsumedExactlyOnce ==
  /\ [][\A t \in Threads :
          Returns(t, "geolocate")
          => /\ thread'[t].ret.kind # "raise"
             /\ thread'[t].ret.kind = "value"
                => ~HasKey(geolocate_responses', thread[t].request_id)]_vars
  /\ [](Cardinality({t \in Threads :
                       Done(t, "geolocate") /\ thread[t].ret.kind = "value"})
        <= posts.n)

(* C17 as stated: start() probes at most 10 consecutive ports from the     *)
(* configured one; it ends by returning True, with the server thread       *)
(* started and self.port the first probed port found free, or by returning *)
(* False, after 10 probes that all found the port in use and with          *)
(* self.port back at the configured value; it never ends by raising.       *)
C17_StartProbesTenPorts ==
  LET probed == server.probed
  IN /\ Len(probed) <= 10
     /\ \A i \in DOMAIN probed : probed[i][1] = server.original_port + i - 1
     /\ server.pc = "done"
        => /\ server.ret.kind = "value"
           /\ server.ret.value
              => /\ server.server_thread
                 /\ probed # <<>>
                 /\ probed[Len(probed)] = <<server.port, FALSE>>
                 /\ \A i \in 1..(Len(probed) - 1) : probed[i][2]
           /\ ~server.ret.value
              => /\ ~server.server_thread
                 /\ Len(probed) = 10
                 /\ \A i \in DOMAIN probed : probed[i][2]
                 /\ server.port = server.original_port

(* C18 as stated: what the caller of get_current_view holds stays the     *)
(* view it was when the call returned, whatever view-changed reports are   *)
(* handled afterwards.                                                     *)
C18_ViewReturnedByValue ==
  \A t \in Threads :
    Done(t, "get_current_view") => Deref(thread[t].ret) = thread[t].ret.seen

(* C19: center, zoom and bounds change only in the step that handles a    *)
(* view-changed report; no tool, no dispatcher or bridge operation, no     *)
(* screenshot or geolocate report, no connect and no disconnect changes    *)
(* them.                                                                   *)
C19_ViewChangedOnlyByReports ==
  [][current_view' # current_view
     => /\ posts'.n = posts.n + 1
        /\ posts'.route = "viewChanged"
        /\ ~IsEmptyDict(posts'.body)]_vars

(* a set_map_view was delivered to the browser, which has disconnected,    *)
(* and a capture_screenshot returned a reported image: the view is still   *)
(* the initial one                                                         *)
C19_Witness ==
  /\ conn[1].pc = "closed"
  /\ \E i \in DOMAIN Observed(1) : Observed(1)[i].message.json.type = "SET_VIEW"
  /\ Done(1, "capture_screenshot")
  /\ thread[1].ret.kind = "value"
  /\ posts.route = "screenshot"
  /\ current_view = InitialView

(* C20: no two connections that are open at the same time carry the same   *)
(* client id, and registering a connection never replaces the registry     *)
(* entry of another open connection.                                       *)
C20_ClientIdsUnique ==
  /\ [](\A c, d \in Conns :
          (c # d /\ conn[c].pc \notin {"none", "closed"}
                 /\ conn[d].pc \notin {"none", "closed"})
          => conn[c].client_id # conn[d].client_id)
  /\ [][\A c, d \in Conns :
          (/\ c # d
           /\ conn[c].pc = "created" /\ conn'[c].pc = "registered"
           /\ d \in Live
           /\ RegHas(sse_clients, conn[d].client_id)
           /\ RegGet(sse_clients, conn[d].client_id) = d)
          => /\ RegHas(sse_clients', conn[d].client_id)
             /\ RegGet(sse_clients', conn[d].client_id) = d]_vars

(* C21 as stated: when the database connection could not be established,  *)
(* app_lifespan ends its start-up by yielding a context, with the map       *)
(* server started; every query_osm_postgres call made then returns the     *)
(* database-not-available string, reaches no database and does not raise;  *)
(* a map tool returns its success status.                                  *)
C21_DatabaseOptional ==
  ~lifespan.db_conn
  => /\ lifespan.pc \in {"yielded", "raised"}
        => /\ lifespan.pc = "yielded"
           /\ flask_server
           /\ server.server_thread
     /\ \A t \in Threads :
          /\ Done(t, "query_osm_postgres")
             => /\ thread[t].ret.kind = "str"
                /\ thread[t].ret.text =
                     "Database connection is not available. Please check your PostgreSQL server."
                /\ ~thread[t].call.executed
          /\ Done(t, "set_map_view")
             => /\ thread[t].ret.kind = "str"
                /\ thread[t].ret.text = "Map view updated successfully"

(* C22: when client_queue.put raises for one client of the snapshot, the   *)
(* loop goes on with the next client; once the broadcast has returned,     *)
(* every client of the snapshot whose put did not raise has been handed    *)
(* the message exactly once, the client whose put raised has been handed   *)
(* nothing of it, and the tool that made the broadcast returns its success *)
(* status, not an exception.                                               *)
C22_EnqueueFailureIsolated ==
  /\ [][\A t \in Threads :
          (/\ thread[t].pc = "send_put"
           /\ thread[t].bc \in DOMAIN sent
           /\ sent'[thread[t].bc].failed # sent[thread[t].bc].failed)
          => /\ thread'[t].pc = "send_put"
             /\ thread'[t].snapshot = Tail(thread[t].snapshot)
             /\ thread'[t].ret.kind # "raise"]_vars
  /\ [](\A b \in DOMAIN sent :
          sent[b].state = "done"
          => /\ sent[b].failed \subseteq sent[b].targets
             /\ \A c \in sent[b].targets :
                  Copies(c, b) = (IF c \in sent[b].failed THEN 0 ELSE 1))
  /\ [](\A t \in Threads :
          Done(t, "set_map_view")
          => /\ thread[t].ret.kind = "str"
             /\ thread[t].ret.text = "Map view updated successfully")

(* a broadcast to two clients has returned success: the put to the first   *)
(* client of the snapshot raised, the second client was handed the message *)
C22_Witness ==
  \E b \in DOMAIN sent :
    /\ sent[b].state = "done"
    /\ sent[b].targets = Conns
    /\ sent[b].failed = {RegItems(sse_clients)[1][2]}
    /\ RegLen(sse_clients) = 2
    /\ \A c \in Conns \ sent[b].failed : Copies(c, b) = 1
    /\ \A c \in sent[b].failed : Copies(c, b) = 0
    /\ Done(1, "set_map_view")
    /\ thread[1].bc = b

(* C23: a broadcast that runs while clients register and disconnect ends   *)
(* without an exception; once it has returned, every client whose queue    *)
(* the registry held from before the call began until the return has been  *)
(* handed its message exactly once (the registry never takes a queue back, *)
(* so these are the clients that registered before the call began and are  *)
(* still in the registry); no client is ever handed it more than once.     *)
C23_BroadcastUnderChurn ==
  /\ \A b \in DOMAIN sent : \A c \in Conns :
       /\ Copies(c, b) <= 1
       /\ (c \in Registered /\ b \notin conn[c].begun
           /\ sent[b].state \in {"done", "noclients"})
          => Copies(c, b) = 1
  /\ \A t \in Threads :
       Done(t, "set_map_view") /\ thread[t].bc # 0
       => /\ thread[t].ret.kind = "str"
          /\ sent[thread[t].bc].state \in {"done", "noclients"}

(* the loop of a broadcast has made its last put: one client was in the    *)
(* registry before the call and still is, and holds one copy; the other    *)
(* registered after the call began, was in the snapshot, has disconnected  *)
(* since, and was handed one copy                                          *)
C23_Witness ==
  \E t \in Threads, c, d \in Conns :
    /\ thread[t].pc = "send_put"
    /\ thread[t].snapshot = <<>>
    /\ c \in Registered
    /\ thread[t].bc \notin conn[c].begun
    /\ Copies(c, thread[t].bc) = 1
    /\ conn[d].pc = "closed"
    /\ thread[t].bc \in conn[d].begun
    /\ d \in sent[thread[t].bc].targets
    /\ Copies(d, thread[t].bc) = 1

(* C24 as stated: every entry of the registry maps the client id of a      *)
(* connection whose handler is running to that connection's queue, and     *)
(* every connection whose handler is in its wait loop is in the registry   *)
(* under its own id with its own queue.                                    *)
C24_RegistryIsConnectedClients ==
  /\ \A i \in DOMAIN sse_clients :
       LET id == sse_clients[i][1]
           owner == sse_clients[i][2]
       IN /\ conn[owner].pc \in {"registered", "yielded", "waiting"}
          /\ conn[owner].client_id = id
  /\ \A c \in Conns :
       conn[c].pc \in {"yielded", "waiting"}
       => /\ RegHas(sse_clients, conn[c].client_id)
          /\ RegGet(sse_clients, conn[c].client_id) = c

(* C25: a wait of a connection ends with its queue empty only when 30 s    *)
(* have passed since it began, and it ends by writing a ping frame: the    *)
(* handler is suspended at that yield, not ended, the registry and the     *)
(* queue are as before; a ping frame is written only when the queue is     *)
(* empty, never while a message waits in it.                               *)
C25_PingOnIdleTimeout ==
  [][\A c \in Conns :
       /\ (conn[c].pc = "waiting" /\ conn[c].client_queue = <<>>
           /\ conn'[c].pc # "waiting")
          => /\ now = conn[c].wait_start + GetTimeoutMs
             /\ conn'[c].stream = Append(conn[c].stream, PingFrame)
             /\ conn'[c].pc = "yielded"
             /\ conn'[c].client_queue = <<>>
             /\ sse_clients' = sse_clients
       /\ (Len(conn'[c].stream) = Len(conn[c].stream) + 1
           /\ conn'[c].stream[Len(conn'[c].stream)] = PingFrame)
          => /\ conn[c].pc = "waiting"
             /\ conn[c].client_queue = <<>>
             /\ conn'[c].client_queue = <<>>]_vars

(* a connection was sent a ping after 30 idle seconds, went on waiting,    *)
(* and was then written a command; it is still in the registry             *)
C25_Witness ==
  \E c \in Conns :
    /\ Len(conn[c].stream) = 3
    /\ conn[c].stream[2] = PingFrame
    /\ conn[c].stream[3].frame = "data"
    /\ conn[c].pc = "waiting"
    /\ c \in Registered
    /\ now >= GetTimeoutMs

(* C26: what a connection has been handed (its stream's data frames, then  *)
(* its queue) only grows at the end: a message leaves the queue only as    *)
(* the next data frame of the stream, unchanged, so none is lost,          *)
(* duplicated or altered; and every message in the queue of a connection   *)
(* is eventually written to its stream as the serialized command of its    *)
(* broadcast, unless the connection is closed.                             *)
C26_EnqueuedIsEmitted ==
  /\ [][\A c \in Conns :
          conn[c].pc \notin {"none", "created"}
          => /\ Len(Received(c)') \in {Len(Received(c)), Len(Received(c)) + 1}
             /\ SubSeq(Received(c)', 1, Len(Received(c))) = Received(c)
             /\ Observed(c)' # Observed(c)
                => /\ conn[c].client_queue # <<>>
                   /\ Observed(c)' = Append(Observed(c), Head(conn[c].client_queue))
                   /\ conn'[c].client_queue = Tail(conn[c].client_queue)]_vars
  /\ \A c \in Conns : \A b \in 1..MaxCalls :
       (\E i \in DOMAIN conn[c].client_queue : conn[c].client_queue[i].bc = b)
       ~> \/ conn[c].pc = "closed"
          \/ /\ Cardinality({i \in DOMAIN Observed(c) : Observed(c)[i].bc = b}) = 1
             /\ \A i \in DOMAIN Observed(c) :
                  Observed(c)[i].bc = b => Observed(c)[i].message = sent[b].message

(* a connection that is still open has been written both commands that    *)
(* were enqueued for it, and its queue is empty                            *)
C26_Witness ==
  \E c \in Conns :
    /\ conn[c].pc \in {"yielded", "waiting"}
    /\ conn[c].client_queue = <<>>
    /\ Len(Observed(c)) = 2
    /\ \A i \in 1..2 : Observed(c)[i].message = sent[Observed(c)[i].bc].message
    /\ Observed(c)[1].bc # Observed(c)[2].bc

(* C27 as stated: a geolocate response is stored under a request id only   *)
(* if no response was stored under that id before, also when every         *)
(* connected browser answers the GEOLOCATE command it was written.         *)
C27_SlotFilledAtMostOnce ==
  [][(/\ posts'.n = posts.n + 1
      /\ posts'.route = "geolocateResponse"
      /\ posts'.reply.status = "success")
     => ~HasKey(posts.reported, posts'.body["requestId"])]_vars

(* C28: a capture_screenshot or geolocate call leaves its waiting loop for  *)
(* its caller only when its timeout has passed, returning None; that step, *)
(* and every step the call made before it (the broadcast, the tests of the *)
(* loop), leaves latest_screenshot and geolocate_responses unchanged, so   *)
(* both are as the report handlers last set them; every entry of           *)
(* geolocate_responses is the result list last reported under its id.      *)
C28_TimeoutLeavesSlots ==
  /\ [][\A t \in Threads :
          (/\ posts' = posts
           /\ thread'[t] # thread[t]
           /\ thread[t].pc \in {"send_len", "send_snap", "send_put",
                                "cap_loop", "geo_loop"})
          => UNCHANGED <<latest_screenshot, geolocate_responses>>]_vars
  /\ [][\A t \in Threads :
          (thread[t].pc \in {"cap_loop", "geo_loop"} /\ thread'[t].pc = "idle")
          => /\ thread'[t].ret = RetNone
             /\ now - thread[t].start_time >=
                  (IF thread[t].pc = "cap_loop" THEN ScreenshotTimeoutMs
                   ELSE GeolocateTimeoutMs)
             /\ UNCHANGED <<latest_screenshot, geolocate_responses>>]_vars
  /\ [](\A k \in DOMAIN geolocate_responses :
          /\ HasKey(posts.reported, k)
          /\ geolocate_responses[k] = posts.reported[k])

(* a geolocate call has timed out although its answer was stored during    *)
(* its last sleep: the answer is still in geolocate_responses              *)
C28_Witness ==
  \E t \in Threads :
    /\ Done(t, "geolocate")
    /\ thread[t].ret = RetNone
    /\ HasKey(geolocate_responses, thread[t].request_id)
    /\ geolocate_responses[thread[t].request_id] = <<"Paris, France">>
    /\ now >= GeolocateTimeoutMs

(* C29 as stated: once a geolocate call has returned, with results or by   *)
(* timeout, geolocate_responses holds no entry under the call's request    *)
(* id.                                                                     *)
C29_PendingRequestDestroyed ==
  \A t \in Threads :
    Done(t, "geolocate") => ~HasKey(geolocate_responses, thread[t].request_id)

(* C30 as stated: two geolocate calls that are in progress at the same     *)
(* time carry different request ids, and a call returns only results that  *)
(* no other call in progress was waiting for.                              *)
C30_RequestIdsUnique ==
  /\ [](\A t, u \in Threads :
          (/\ t # u
           /\ thread[t].call.name = "geolocate" /\ thread[t].pc # "idle"
           /\ thread[u].call.name = "geolocate" /\ thread[u].pc # "idle")
          => thread[t].request_id # thread[u].request_id)
  /\ [][\A t, u \in Threads :
          (/\ t # u
           /\ Returns(t, "geolocate")
           /\ thread'[t].ret.kind = "value"
           /\ thread[u].call.name = "geolocate" /\ thread[u].pc # "idle")
          => thread[u].request_id # thread[t].request_id]_vars

----------------------------------------------------------------------------
(* C31 as stated: every image the screenshot endpoint accepts with success *)
(* is stored in the slot, replacing an unconsumed earlier one; the next    *)
(* poll of capture_screenshot that runs while the slot holds a stored      *)
(* image takes it, and the call returns the image the slot holds and       *)
(* leaves the slot empty.                                                  *)
C31_StoredImageReturned ==
  /\ [][(posts'.n = posts.n + 1 /\ posts'.route = "screenshot"
         /\ posts'.reply = Success)
        => latest_screenshot' = Some(posts'.body["image"])]_vars
  /\ [][\A t \in Threads :
          /\ (thread[t].pc = "cap_loop" /\ thread'[t] # thread[t]
              /\ now - thread[t].start_time < ScreenshotTimeoutMs
              /\ latest_screenshot # None)
             => thread'[t].pc = "cap_read"
          /\ Returns(t, "capture_screenshot") /\ thread[t].pc = "cap_clear"
             => /\ thread'[t].ret = RetValue(Get(latest_screenshot))
                /\ latest_screenshot' = None]_vars
----------------------------------------------------------------------------
(* C32 as stated: a stored screenshot is consumed by at most one caller.   *)
(* With every report carrying an image of its own, two capture_screenshot  *)
(* calls never both return the same image, and a call that clears the slot *)
(* clears the image it read: an image stored since its read stays in the   *)
(* slot.                                                                   *)
C32_ConsumedByOneCaller ==
  /\ [](\A t, u \in Threads :
         (t # u /\ Done(t, "capture_screenshot") /\ Done(u, "capture_screenshot")
          /\ thread[t].ret.kind = "value" /\ thread[u].ret.kind = "value")
         => thread[t].ret # thread[u].ret)
  /\ [][\A t \in Threads :
          (thread[t].pc = "cap_clear" /\ thread'[t].pc = "idle"
           /\ latest_screenshot # thread[t].screenshot)
          => latest_screenshot' = latest_screenshot]_vars
----------------------------------------------------------------------------
(* The command type of each map tool, and the option key of each argument  *)
CommandTypeOf(name) ==
  CASE name = "set_map_view" -> "SET_VIEW"
    [] name = "set_map_title" -> "SET_TITLE"
    [] name = "add_map_marker" -> "SHOW_MARKER"
    [] name = "add_map_polygon" -> "SHOW_POLYGON"
    [] name = "add_map_line" -> "SHOW_LINE"

OptionKeys(name) ==
  CASE name = "set_map_view" -> {}
    [] name = "set_map_title" ->
         {<<"color", "color">>, <<"font_size", "fontSize">>,
          <<"background_color", "backgroundColor">>}
    [] name = "add_map_marker" -> {<<"title", "title">>}
    [] name = "add_map_polygon" ->
         {<<"color", "color">>, <<"fill_color", "fillColor">>,
          <<"fill_opacity", "fillOpacity">>, <<"weight", "weight">>}
    [] name = "add_map_line" ->
         {<<"color", "color">>, <<"weight", "weight">>, <<"opacity", "opacity">>,
          <<"dash_array", "dashArray">>}

(* the command carries what the caller gave: each given argument, under    *)
(* its key, with the given value                                           *)
Carries(command, call) ==
  /\ command.type = CommandTypeOf(call.name)
  /\ call.name = "set_map_view"
     => \A f \in {"bounds", "center", "zoom"} :
          call[f] # None
          => HasKey(command.data, f) /\ command.data[f] = Get(call[f])
  /\ call.name = "set_map_title" => command.data.title = call.title
  /\ call.name = "add_map_marker"
     => /\ command.data.coordinates = call.coordinates
        /\ command.data.text = call.text
        /\ command.data.options["openPopup"] = call.open_popup
  /\ call.name \in {"add_map_polygon", "add_map_line"}
     => /\ command.data.coordinates = call.coordinates
        /\ command.data.options["fitBounds"] = call.fit_bounds
  /\ \A k \in OptionKeys(call.name) :
       call[k[1]] # None
       => /\ HasKey(command.data.options, k[2])
          /\ command.data.options[k[2]] = Get(call[k[1]])

SuccessTexts ==
  {"Map view updated successfully", "Map title set", "Marker added",
   "Polygon added", "Line added"}

(* C33 as stated: every map tool call that returns a success string has    *)
(* caused exactly one broadcast, of the command type of the tool and       *)
(* carrying the caller's coordinates, text and options; every call that    *)
(* returns an error string has caused none.  Every broadcast is begun by   *)
(* the first step of one call, and a call begins at most one.              *)
C33_OneBroadcastPerSuccess ==
  /\ [](\A t \in Threads :
         (thread[t].call.name \in ToolNames /\ thread[t].pc = "idle")
         => /\ thread[t].ret.kind = "str"
            /\ IF thread[t].ret.text \in SuccessTexts
               THEN /\ thread[t].bc \in DOMAIN sent
                    /\ Carries(sent[thread[t].bc].message.json, thread[t].call)
               ELSE thread[t].bc = 0)
  /\ [][/\ Len(sent') \in {Len(sent), Len(sent) + 1}
        /\ \A t \in Threads :
             (thread'[t].call.name \in ToolNames /\ thread'[t].bc # thread[t].bc)
             => /\ thread[t].pc = "idle"
                /\ thread'[t].bc \in {0, Len(sent')}
                /\ thread'[t].bc # 0 => Len(sent') = Len(sent) + 1
        /\ Len(sent') = Len(sent) + 1
           => \E t \in Threads : thread[t].pc = "idle" /\ thread'[t].bc = Len(sent')]_vars
----------------------------------------------------------------------------
(* C34 as stated: every capture_screenshot and geolocate call terminates,  *)
(* whatever is reported and whenever: a call that has returned has         *)
(* returned a result or None, never an exception, and a call still in its  *)
(* polling loop is not past its deadline (5 s, 10 s after it began).       *)
C34_CallsTerminate ==
  \A t \in Threads :
    /\ (Done(t, "capture_screenshot") \/ Done(t, "geolocate"))
       => thread[t].ret.kind \in {"value", "None"}
    /\ thread[t].pc \in {"cap_loop", "cap_read", "cap_clear"}
       => now - thread[t].start_time <= ScreenshotTimeoutMs
    /\ thread[t].pc \in {"geo_loop", "geo_pop"}
       => now - thread[t].start_time <= GeolocateTimeoutMs
----------------------------------------------------------------------------
(* C35 as stated: the disconnect of one client removes only that client's  *)
(* own registry entry: every other client whose handler is running and     *)
(* whose queue the registry holds is still in the registry afterwards, and *)
(* every broadcast that has returned and was begun after such a client     *)
(* registered has handed it its message, once.                             *)
C35_DisconnectRemovesOwnEntryOnly ==
  /\ [][\A c \in Conns :
          (conn[c].pc # "closed" /\ conn'[c].pc = "closed")
          => \A d \in (Live \cap Registered) \ {c} : d \in Registered']_vars
  /\ [](\A c \in Conns : \A d \in Live \ {c} : \A b \in DOMAIN sent :
         (conn[c].pc = "closed" /\ b \notin conn[d].begun
          /\ sent[b].state \in {"done", "noclients"})
         => Copies(d, b) = 1)
----------------------------------------------------------------------------
(* C36: a broadcast never blocks on a client.  Every send_map_command that *)
(* has begun returns, whether or not any client drains its queue; when it  *)
(* has returned, each queue of its snapshot has been handed the message    *)
(* once, a disconnected client's queue included, and no other queue has.   *)
C36_BroadcastNeverBlocks ==
  /\ \A t \in Threads :
       (thread[t].pc \in {"send_len", "send_snap", "send_put"})
       ~> (thread[t].pc = "idle")
  /\ [](\A b \in DOMAIN sent : \A c \in Conns :
         /\ Copies(c, b) <= 1
         /\ sent[b].state = "done"
            => Copies(c, b) = IF c \in sent[b].targets THEN 1 ELSE 0
         /\ sent[b].state = "noclients" => Copies(c, b) = 0)

(* a second broadcast has returned: one client of its snapshot had         *)
(* disconnected before its put and holds the message in its queue, the     *)
(* other has never read its queue and holds both messages                  *)
C36_Witness ==
  \E c, d \in Conns :
    /\ 2 \in DOMAIN sent
    /\ sent[2].state = "done"
    /\ sent[2].targets = {c, d}
    /\ conn[c].pc = "closed"
    /\ \E i \in DOMAIN conn[c].client_queue : conn[c].client_queue[i].bc = 2
    /\ conn[d].pc \in {"yielded", "waiting"}
    /\ Observed(d) = <<>>
    /\ Len(conn[d].client_queue) = 2
----------------------------------------------------------------------------
(* C37 as stated: when FlaskServer.start() has returned False during       *)
(* app_lifespan, the yielded application context exposes no map server,    *)
(* and every map tool called then returns "Map server is not available."   *)
(* and makes no send_map_command.                                          *)
C37_StartFailureExposesNoServer ==
  (lifespan.pc = "yielded" /\ server.ret = RetValue(FALSE))
  => /\ ~flask_server
     /\ \A t \in Threads :
          thread[t].call.name \in ToolNames
          => /\ thread[t].pc = "idle"
             /\ thread[t].ret = NotAvailable
             /\ thread[t].bc = 0
----------------------------------------------------------------------------
----------------------------------------------------------------------------
(* The statements of a query text, comments removed: a statement begins at *)
(* the first word and after every ";"                                      *)
HasWriteStatement(query) ==
  LET q == StripLower(StripBlockComments(StripLineComments(query, FALSE)))
  IN \E i \in DOMAIN q :
       /\ q[i] \in write_operations
       /\ i = 1 \/ q[i - 1] = ";"

(* C39 as stated: a query text that contains an INSERT, UPDATE, DELETE,    *)
(* DROP, CREATE, ALTER, TRUNCATE, GRANT, REVOKE or SET statement, wherever *)
(* in the text and with or without leading comments, never reaches         *)
(* execute_query, and with a database connected the call returns the       *)
(* read-only error string.                                                 *)
C39_OnlyReadOnlyReachesDatabase ==
  \A t \in Threads :
    (Done(t, "query_osm_postgres") /\ HasWriteStatement(thread[t].call.query))
    => /\ ~thread[t].call.executed
       /\ lifespan.db_conn
          => thread[t].ret =
               RetStr("Error: Only read-only queries are allowed for security reasons.",
                      <<>>)
====
